---------------------------- MODULE Spec2Model ----------------------------
(***************************************************************************)
(* State-machine model of the CODE:You job board client pipeline:          *)
(* the job-list view (src/src/jobBoard.js, and its JSON-fed copy in        *)
(* src/src/app.js) and the dashboard view (src/src/dashboard.js).          *)
(*                                                                         *)
(* JavaScript strings are sequences of one-character strings, so that      *)
(* trim, toLowerCase, includes, split and the regular expressions act on   *)
(* characters.  JavaScript numbers are records [t, v]: t = "num" with the  *)
(* integer v, t = "nan", or t = "null"; Date objects are records           *)
(* [t, y, m, d]: t = "date", t = "invalid" (an Invalid Date object) or     *)
(* t = "null".                                                             *)
(***************************************************************************)
EXTENDS Integers, Sequences, FiniteSets, TLC

VARIABLES
    page,            \* which script runs: "jobBoard", "app" or "dashboard"
    loadState,       \* the DOMContentLoaded handler: "pending" (awaiting fetch), "done", "failed"
    tableHeaders,    \* let tableHeaders (jobBoard.js:2, dashboard.js:31)
    activeJobs,      \* let activeJobs (jobBoard.js:1)
    sortState,       \* let sortState (jobBoard.js:3)
    currentPage,     \* let currentPage (jobBoard.js:6)
    totalPages,      \* let totalPages (jobBoard.js:5)
    inputs,          \* job list: values of #searchInput, #pathwayFilter, #locationFilter
    jobTable,        \* job list: #jobTable, .table-wrapper and #pagination-controls as rendered
    statusEl,        \* job list: .job-data-status
    stats,           \* job list: #job-count, #pay-range, #skills-list
    console,         \* what the load reported to the console only
    allActiveJobs,   \* let allActiveJobs (dashboard.js:27)
    dashSort,        \* dashSortColumn, dashSortDirection (dashboard.js:48, 51)
    dashCurrentPage, \* let dashCurrentPage (dashboard.js:41)
    dashTotalPages,  \* let dashTotalPages (dashboard.js:44)
    dashInputs,      \* dashboard: #startDate, #endDate, the three selects and their options
    dashView,        \* dashboard: #jobCount, #dateWarning, charts, table, #loadingOverlay
    probe            \* a function called on its own: its input, then its input and output

vars == <<page, loadState, tableHeaders, activeJobs, sortState, currentPage,
          totalPages, inputs, jobTable, statusEl, stats, console,
          allActiveJobs, dashSort, dashCurrentPage, dashTotalPages, dashInputs,
          dashView, probe>>

jobListVars == <<activeJobs, sortState, currentPage, totalPages, inputs,
                 jobTable, statusEl, stats>>

dashVars == <<allActiveJobs, dashSort, dashCurrentPage, dashTotalPages,
              dashInputs, dashView>>

---------------------------------------------------------------------------
(* Strings *)

Min(S) == CHOOSE x \in S : \A y \in S : x <= y
Max(S) == CHOOSE x \in S : \A y \in S : x >= y

\* The k-th smallest element of a finite set of integers.
Nth(S, k) == CHOOSE x \in S : Cardinality({y \in S : y <= x}) = k

WhiteSpace == {" ", "\t", "\r", "\n"}

\* String.prototype.trim
Trim(s) ==
    LET keep == {i \in 1..Len(s) : s[i] \notin WhiteSpace}
    IN  IF keep = {} THEN <<>> ELSE SubSeq(s, Min(keep), Max(keep))

LowerMap ==
    ("A" :> "a") @@ ("B" :> "b") @@ ("C" :> "c") @@ ("D" :> "d") @@ ("E" :> "e") @@ ("F" :> "f") @@
    ("G" :> "g") @@ ("H" :> "h") @@ ("I" :> "i") @@ ("J" :> "j") @@ ("K" :> "k") @@ ("L" :> "l") @@
    ("M" :> "m") @@ ("N" :> "n") @@ ("O" :> "o") @@ ("P" :> "p") @@ ("Q" :> "q") @@ ("R" :> "r") @@
    ("S" :> "s") @@ ("T" :> "t") @@ ("U" :> "u") @@ ("V" :> "v") @@ ("W" :> "w") @@ ("X" :> "x") @@
    ("Y" :> "y") @@ ("Z" :> "z")

\* String.prototype.toLowerCase
ToLowerCase(s) ==
    [i \in 1..Len(s) |-> IF s[i] \in DOMAIN LowerMap THEN LowerMap[s[i]] ELSE s[i]]

\* String.prototype.includes
Includes(hay, needle) ==
    \E i \in 0..(Len(hay) - Len(needle)) : SubSeq(hay, i + 1, i + Len(needle)) = needle

\* String.prototype.split on a one-character separator: always at least one piece.
Split(s, sep) ==
    LET cuts == {i \in 1..Len(s) : s[i] = sep}
        n    == Cardinality(cuts)
        from(k) == IF k = 1 THEN 1 ELSE Nth(cuts, k - 1) + 1
        to(k)   == IF k = n + 1 THEN Len(s) ELSE Nth(cuts, k) - 1
    IN  [k \in 1..(n + 1) |-> SubSeq(s, from(k), to(k))]

\* String.prototype.replace(/[...]/g, "") for a character class.
RemoveChars(s, class) == SelectSeq(s, LAMBDA c : c \notin class)

\* String.prototype.replaceAll for one character by another.
ReplaceChar(s, a, b) == [i \in 1..Len(s) |-> IF s[i] = a THEN b ELSE s[i]]

\* Array.prototype.join with a separator string.
RECURSIVE Join(_, _)
Join(parts, sep) ==
    IF Len(parts) = 0 THEN <<>>
    ELSE IF Len(parts) = 1 THEN parts[1]
    ELSE parts[1] \o sep \o Join(Tail(parts), sep)

---------------------------------------------------------------------------
(* Numbers *)

JSNull == [t |-> "null", v |-> 0]
JSNaN == [t |-> "nan", v |-> 0]
JSNum(n) == [t |-> "num", v |-> n]

Digits == {"0", "1", "2", "3", "4", "5", "6", "7", "8", "9"}

DigitVal ==
    ("0" :> 0) @@ ("1" :> 1) @@ ("2" :> 2) @@ ("3" :> 3) @@ ("4" :> 4) @@
    ("5" :> 5) @@ ("6" :> 6) @@ ("7" :> 7) @@ ("8" :> 8) @@ ("9" :> 9)

RECURSIVE DigitsValue(_)
DigitsValue(ds) ==
    IF Len(ds) = 0 THEN 0
    ELSE 10 * DigitsValue(SubSeq(ds, 1, Len(ds) - 1)) + DigitVal[ds[Len(ds)]]

\* The longest prefix of s made of digits.
DigitPrefix(s) ==
    LET stop == {i \in 1..Len(s) : s[i] \notin Digits}
    IN  IF stop = {} THEN s ELSE SubSeq(s, 1, Min(stop) - 1)

\* parseFloat and parseInt(.., 10) on strings without "." or an exponent:
\* leading white space and one sign are skipped, the longest digit prefix is
\* the value, and no digit at all is NaN.
ParseNumber(str) ==
    LET lead == {i \in 1..Len(str) : str[i] \notin WhiteSpace}
        s    == IF lead = {} THEN <<>> ELSE SubSeq(str, Min(lead), Len(str))
        neg  == Len(s) > 0 /\ s[1] = "-"
        body == IF Len(s) > 0 /\ s[1] \in {"+", "-"} THEN Tail(s) ELSE s
        ds   == DigitPrefix(body)
    IN  IF Len(ds) = 0 THEN JSNaN
        ELSE JSNum(IF neg THEN 0 - DigitsValue(ds) ELSE DigitsValue(ds))

\* ToBoolean of a number or null.
Truthy(x) == x.t = "num" /\ x.v # 0

\* x || null
OrNull(x) == IF Truthy(x) THEN x ELSE JSNull

\* ToNumber of a number or null: null is 0.
ToNumber(x) == IF x.t = "null" THEN JSNum(0) ELSE x

---------------------------------------------------------------------------
(* Dates *)

NullDate == [t |-> "null", y |-> 0, m |-> 0, d |-> 0]
InvalidDate == [t |-> "invalid", y |-> 0, m |-> 0, d |-> 0]
DateOf(y, m, d) == [t |-> "date", y |-> y, m |-> m, d |-> d]

IsLeap(y) == (y % 4 = 0 /\ y % 100 # 0) \/ y % 400 = 0

DaysInMonth(y, m) ==
    IF m = 2 THEN (IF IsLeap(y) THEN 29 ELSE 28)
    ELSE IF m \in {4, 6, 9, 11} THEN 30 ELSE 31

RECURSIVE DaysBeforeMonth(_, _)
DaysBeforeMonth(y, m) ==
    IF m <= 1 THEN 0 ELSE DaysBeforeMonth(y, m - 1) + DaysInMonth(y, m - 1)

\* Days from 1 January of year 0 to the date: the order of Date.getTime().
DayNumber(y, m, d) ==
    365 * y + ((y + 3) \div 4) - ((y + 99) \div 100) + ((y + 399) \div 400)
      + DaysBeforeMonth(y, m) + (d - 1)

\* Date.getTime() in days; NaN for an Invalid Date.
GetTime(date) ==
    IF date.t = "date" THEN JSNum(DayNumber(date.y, date.m, date.d))
    ELSE IF date.t = "null" THEN JSNum(0) ELSE JSNaN

\* new Date("yyyy-mm-dd...") for a month 01..12 and a day 01..31.  A day the
\* month does not have is outside the ISO format: ECMAScript asks for an
\* Invalid Date ("strict"), V8 rolls over into the next month ("v8").
NewDateISO(eng, y, m, d) ==
    IF d <= DaysInMonth(y, m) THEN DateOf(y, m, d)
    ELSE IF eng = "strict" THEN InvalidDate
    ELSE IF m = 12 THEN DateOf(y + 1, 1, d - DaysInMonth(y, m))
    ELSE DateOf(y, m + 1, d - DaysInMonth(y, m))

\* /^(0[1-9]|1[0-2])\/(0[1-9]|[12][0-9]|3[01])\/(\d{4})$/
DateRegexMatches(str) ==
    /\ Len(str) = 10
    /\ str[3] = "/" /\ str[6] = "/"
    /\ \/ str[1] = "0" /\ str[2] \in Digits \ {"0"}
       \/ str[1] = "1" /\ str[2] \in {"0", "1", "2"}
    /\ \/ str[4] = "0" /\ str[5] \in Digits \ {"0"}
       \/ str[4] \in {"1", "2"} /\ str[5] \in Digits
       \/ str[4] = "3" /\ str[5] \in {"0", "1"}
    /\ \A i \in 7..10 : str[i] \in Digits

\* Date.getMonth() + 1 and Date.getDate(); NaN for an Invalid Date.
GetMonth1(date) == IF date.t = "date" THEN JSNum(date.m) ELSE JSNaN
GetDate(date) == IF date.t = "date" THEN JSNum(date.d) ELSE JSNaN

\* parseDate of jobBoard.js and app.js.
parseDate(str, eng) ==
    IF ~DateRegexMatches(str) THEN NullDate
    ELSE LET mm == ParseNumber(SubSeq(str, 1, 2))
             dd == ParseNumber(SubSeq(str, 4, 5))
             yyyy == ParseNumber(SubSeq(str, 7, 10))
             date == NewDateISO(eng, yyyy.v, mm.v, dd.v)
         IN  IF GetMonth1(date) # mm \/ GetDate(date) # dd THEN NullDate ELSE date

\* parseDate of dashboard.js: the constructed date is returned unchecked.
dashParseDate(str, eng) ==
    IF ~DateRegexMatches(str) THEN NullDate
    ELSE NewDateISO(eng,
                    ParseNumber(SubSeq(str, 7, 10)).v,
                    ParseNumber(SubSeq(str, 1, 2)).v,
                    ParseNumber(SubSeq(str, 4, 5)).v)

---------------------------------------------------------------------------
(* Parsing the fetched payload into rows of cells *)

\* The property names the scripts read from a job.
KDate == <<"D", "a", "t", "e">>
KEmployer == <<"E", "m", "p", "l", "o", "y", "e", "r">>
KJobTitle == <<"J", "o", "b", " ", "T", "i", "t", "l", "e">>
KPathway == <<"P", "a", "t", "h", "w", "a", "y">>
KLanguage == <<"L", "a", "n", "g", "u", "a", "g", "e">>
KSalaryRange == <<"S", "a", "l", "a", "r", "y", " ", "R", "a", "n", "g", "e">>
KContactPerson == <<"C", "o", "n", "t", "a", "c", "t", " ", "P", "e", "r", "s", "o", "n">>
KLocation == <<"L", "o", "c", "a", "t", "i", "o", "n">>
KDeactivate == <<"D", "e", "a", "c", "t", "i", "v", "a", "t", "e", "?">>
KApply == <<"A", "p", "p", "l", "y">>

\* Array.prototype.filter and map on sequences.
Filter(seq, Keep(_)) == SelectSeq(seq, Keep)
Map(seq, F(_)) == [i \in 1..Len(seq) |-> F(seq[i])]

\* String.prototype.split(/\r?\n/)
SplitLines(text) ==
    LET pieces == Split(text, "\n")
        strip(k) ==
            IF k < Len(pieces) /\ Len(pieces[k]) > 0 /\ pieces[k][Len(pieces[k])] = "\r"
            THEN SubSeq(pieces[k], 1, Len(pieces[k]) - 1)
            ELSE pieces[k]
    IN  [k \in 1..Len(pieces) |-> strip(k)]

\* From an opening quote at q, the index where ([^"]|"")* stops: the first
\* quote that is not the first of a doubled quote, or Len(line) + 1.
RECURSIVE QuotedBodyEnd(_, _)
QuotedBodyEnd(line, i) ==
    IF i > Len(line) THEN i
    ELSE IF line[i] # "\"" THEN QuotedBodyEnd(line, i + 1)
    ELSE IF i + 1 <= Len(line) /\ line[i + 1] = "\"" THEN QuotedBodyEnd(line, i + 2)
    ELSE i

\* One match of /("([^"]|"")*"|[^,]*)(?=,|$)/ starting at q: the index after it.
CellMatchEnd(line, q) ==
    LET close == QuotedBodyEnd(line, q + 1)
        quoted ==
            /\ q <= Len(line) /\ line[q] = "\""
            /\ close <= Len(line)
            /\ (close + 1 > Len(line) \/ line[close + 1] = ",")
        commas == {i \in q..Len(line) : line[i] = ","}
    IN  IF quoted THEN close + 1
        ELSE IF commas = {} THEN Len(line) + 1 ELSE Min(commas)

\* String.prototype.match with the g flag: the matches from lastIndex q on;
\* an empty match advances lastIndex by one.
RECURSIVE CellMatches(_, _)
CellMatches(line, q) ==
    IF q > Len(line) + 1 THEN <<>>
    ELSE LET e == CellMatchEnd(line, q)
         IN  <<SubSeq(line, q, e - 1)>> \o CellMatches(line, IF e = q THEN q + 1 ELSE e)

\* String.prototype.replace(/""/g, '"'), left to right without overlap.
RECURSIVE UndoubleQuotes(_)
UndoubleQuotes(s) ==
    IF Len(s) = 0 THEN <<>>
    ELSE IF Len(s) >= 2 /\ s[1] = "\"" /\ s[2] = "\""
         THEN <<"\"">> \o UndoubleQuotes(SubSeq(s, 3, Len(s)))
    ELSE <<s[1]>> \o UndoubleQuotes(Tail(s))

\* parseCSVLine of jobBoard.js
parseCSVLine(line) ==
    IF Trim(line) = <<>> THEN <<>>
    ELSE LET unquote(raw) ==
                 LET cell == Trim(raw)
                 IN  IF Len(cell) > 0 /\ cell[1] = "\"" /\ cell[Len(cell)] = "\""
                     THEN UndoubleQuotes(SubSeq(cell, 2, Len(cell) - 1))
                     ELSE cell
         IN  Map(CellMatches(line, 1), unquote)

\* parseCSVLine of dashboard.js: every quote toggles inQuotes and is dropped;
\* a comma splits when inQuotes is false.
dashParseCSVLine(line) ==
    LET quotesBefore(i) == Cardinality({j \in 1..(i - 1) : line[j] = "\""})
        cuts == {i \in 1..Len(line) : line[i] = "," /\ quotesBefore(i) % 2 = 0}
        n    == Cardinality(cuts)
        from(k) == IF k = 1 THEN 1 ELSE Nth(cuts, k - 1) + 1
        to(k)   == IF k = n + 1 THEN Len(line) ELSE Nth(cuts, k) - 1
    IN  [k \in 1..(n + 1) |-> Trim(RemoveChars(SubSeq(line, from(k), to(k)), {"\""}))]

\* replaceUnderscoresInRow of jobBoard.js and app.js: only the cell at index 7.
replaceUnderscoresInRow(row) ==
    [i \in 1..Len(row) |-> IF i = 8 THEN ReplaceChar(row[i], "_", " ") ELSE row[i]]

\* replaceUnderscoresInRow of dashboard.js: every cell.
dashReplaceUnderscoresInRow(row) ==
    [i \in 1..Len(row) |-> ReplaceChar(row[i], "_", " ")]

\* The row pipeline shared by the two parseJobData of the CSV scripts.
CsvRows(data, ParseLine(_), Replace(_)) ==
    LET parsed == Map(SplitLines(Trim(data)), ParseLine)
        nonEmpty == Filter(parsed, LAMBDA row : Len(row) > 0)
        noBlanks == Map(nonEmpty, LAMBDA row : Filter(row, LAMBDA cell : cell # <<>>))
        longEnough == Filter(noBlanks, LAMBDA row : Len(row) >= 9)
    IN  Map(longEnough, Replace)

\* The result of a parseJobData: ok is FALSE when it throws (no header row
\* to spread, or no cell at index 7 to replace in).
Parsed(headers, jobs) == [ok |-> TRUE, tableHeaders |-> headers, jobs |-> jobs]
ParseThrows == [ok |-> FALSE, tableHeaders |-> <<>>, jobs |-> <<>>]

\* parseJobData of jobBoard.js
parseJobData(data) ==
    LET jobData == CsvRows(data, parseCSVLine, replaceUnderscoresInRow)
    IN  IF Len(jobData) = 0 THEN ParseThrows
        ELSE Parsed(jobData[1], Tail(jobData))

\* parseJobData of dashboard.js
dashParseJobData(data) ==
    LET jobData == CsvRows(data, dashParseCSVLine, dashReplaceUnderscoresInRow)
    IN  IF Len(jobData) = 0 THEN ParseThrows
        ELSE Parsed(jobData[1], Tail(jobData))

\* parseJobData of app.js, on the values array of the JSON payload: a row
\* with a non-blank cell is cut or padded with "" to the header's length.
appParseJobData(values) ==
    LET headers == IF Len(values) = 0 THEN <<>> ELSE values[1]
        rows == IF Len(values) = 0 THEN <<>> ELSE Tail(values)
        filled == Filter(rows, LAMBDA row : \E i \in 1..Len(row) : Trim(row[i]) # <<>>)
        fit(row) == [i \in 1..Len(headers) |-> IF i <= Len(row) THEN row[i] ELSE <<>>]
    IN  IF Len(filled) > 0 /\ Len(headers) < 8 THEN ParseThrows
        ELSE Parsed(headers, Map(filled, LAMBDA row : replaceUnderscoresInRow(fit(row))))

---------------------------------------------------------------------------
(* Normalising rows into jobs: a job is a function from header cells to values *)

LDate == <<"d", "a", "t", "e">>
LDeactivateQ == <<"d", "e", "a", "c", "t", "i", "v", "a", "t", "e", "?">>
LDeactivate == <<"d", "e", "a", "c", "t", "i", "v", "a", "t", "e">>
LSalary == <<"s", "a", "l", "a", "r", "y">>
LLanguage == <<"l", "a", "n", "g", "u", "a", "g", "e">>
LFalse == <<"f", "a", "l", "s", "e">>

\* A flag that compares without lowering the case, which C12 must tell from
\* the real one.
DeactivateFlagExact(trimmedCell) == trimmedCell # LFalse

\* The Deactivate? flag of createJobs: trimmedCell.toLowerCase() !== "false"
DeactivateFlag(trimmedCell) == ToLowerCase(trimmedCell) # LFalse

\* The salary object of createJobs in jobBoard.js and app.js: {min, max}
SalaryOf(trimmedCell) ==
    LET salaryRange == Split(RemoveChars(trimmedCell, {"$", ","}), "-")
        min == OrNull(ParseNumber(Trim(salaryRange[1])))
        max == IF Len(salaryRange) > 1 THEN OrNull(ParseNumber(Trim(salaryRange[2])))
               ELSE JSNull
    IN  [min |-> min, max |-> max]

\* The salary object of createJobs in dashboard.js: avg = (min + (max || min)) / 2,
\* kept exactly as whole part v and half (0 or 1).
dashSalaryOf(trimmedCell) ==
    LET s == SalaryOf(trimmedCell)
        sum == ToNumber(s.min).v + ToNumber(IF Truthy(s.max) THEN s.max ELSE s.min).v
    IN  [min |-> s.min, max |-> s.max,
         avg |-> [t |-> "num", v |-> sum \div 2, half |-> sum % 2]]

\* The Language array of createJobs.
LanguagesOf(trimmedCell) ==
    Filter(Map(Split(trimmedCell, ","), Trim), LAMBDA lang : lang # <<>>)

\* The value createJobs stores under key for the raw cell.
Coerce(key, cellValue, script, eng) ==
    LET trimmedKey == ToLowerCase(Trim(key))
        trimmedCell == Trim(cellValue)
    IN  IF trimmedKey = LDate
        THEN (IF script = "dashboard" THEN dashParseDate(trimmedCell, eng)
              ELSE parseDate(trimmedCell, eng))
        ELSE IF trimmedKey = LDeactivateQ THEN DeactivateFlag(trimmedCell)
        ELSE IF Includes(trimmedKey, LSalary)
        THEN (IF script = "dashboard" THEN dashSalaryOf(trimmedCell)
              ELSE SalaryOf(trimmedCell))
        ELSE IF trimmedKey = LLanguage THEN LanguagesOf(trimmedCell)
        ELSE trimmedCell

\* The jobs a createJobs builds: rows shorter than the header are skipped,
\* and so is every row when there is no key at all.
JobsFrom(keys, jobData, script, eng) ==
    LET keySet == {keys[i] : i \in 1..Len(keys)}
        lastIndex(k) == Max({i \in 1..Len(keys) : keys[i] = k})
        parsedJob(job) ==
            [k \in keySet |-> Coerce(k, job[lastIndex(k)], script, eng)]
        kept == Filter(jobData, LAMBDA job : Len(job) >= Len(keys) /\ Len(keys) > 0)
    IN  Map(kept, parsedJob)

\* createJobs of jobBoard.js and app.js
createJobs(keys, jobData, eng) == JobsFrom(keys, jobData, "jobBoard", eng)

\* createJobs of dashboard.js
dashCreateJobs(keys, jobData, eng) ==
    JobsFrom(keys, jobData, "dashboard", eng)

\* job["Deactivate?"], undefined (falsy) when the header has no such cell.
IsDeactivated(job) == KDeactivate \in DOMAIN job /\ job[KDeactivate]

\* A getActiveJobs that drops nothing, which C1 must tell from the real one.
getActiveJobsKeepingAll(allJobs) == allJobs

\* getActiveJobs, the same in the three scripts.
getActiveJobs(allJobs) == Filter(allJobs, LAMBDA job : ~IsDeactivated(job))

---------------------------------------------------------------------------
(* Job list: filter, sort, paginate, statistics *)

\* getFilterCriteria
getFilterCriteria(dom) ==
    [searchTerm |-> Trim(dom.searchInput),
     pathway |-> Trim(dom.pathwayFilter),
     location |-> Trim(dom.locationFilter)]

\* getSearchResults: the term is used as typed.
getSearchResults(itemsToSearch, searchTerm) ==
    Filter(itemsToSearch, LAMBDA item :
        \/ Includes(ToLowerCase(Trim(item[KEmployer])), searchTerm)
        \/ Includes(ToLowerCase(Trim(item[KJobTitle])), searchTerm)
        \/ \E i \in 1..Len(item[KLanguage]) :
               Includes(ToLowerCase(Trim(item[KLanguage][i])), searchTerm))

\* A filter that also drops the first record it is given, which C21 must
\* tell from the real one.
filterItemsDroppingFirst(items, criteria) ==
    IF criteria.searchTerm # <<>> /\ Len(items) > 0
    THEN Tail(getSearchResults(items, criteria.searchTerm))
    ELSE items

\* filterItems
filterItems(items, criteria) ==
    LET searched == IF criteria.searchTerm # <<>>
                    THEN getSearchResults(items, criteria.searchTerm) ELSE items
        onPathway == IF criteria.pathway # <<>>
                     THEN Filter(searched, LAMBDA item : Trim(item[KPathway]) = criteria.pathway)
                     ELSE searched
    IN  IF criteria.location # <<>>
        THEN Filter(onPathway, LAMBDA item : Trim(item[KLocation]) = criteria.location)
        ELSE onPathway

\* applyFilters
applyFilters(items, dom) == filterItems(items, getFilterCriteria(dom))

LetterIndex ==
    ("a" :> 1) @@ ("b" :> 2) @@ ("c" :> 3) @@ ("d" :> 4) @@ ("e" :> 5) @@ ("f" :> 6) @@ ("g" :> 7) @@
    ("h" :> 8) @@ ("i" :> 9) @@ ("j" :> 10) @@ ("k" :> 11) @@ ("l" :> 12) @@ ("m" :> 13) @@ ("n" :> 14) @@
    ("o" :> 15) @@ ("p" :> 16) @@ ("q" :> 17) @@ ("r" :> 18) @@ ("s" :> 19) @@ ("t" :> 20) @@ ("u" :> 21) @@
    ("v" :> 22) @@ ("w" :> 23) @@ ("x" :> 24) @@ ("y" :> 25) @@ ("z" :> 26)

\* The primary weight of a character in the root collation: white space,
\* then punctuation and symbols, then digits, then letters without case.
PrimaryWeight(c) ==
    LET l == IF c \in DOMAIN LowerMap THEN LowerMap[c] ELSE c
    IN  IF l \in DOMAIN LetterIndex THEN 50 + LetterIndex[l]
        ELSE IF l \in Digits THEN 30 + DigitVal[l]
        ELSE IF l \in WhiteSpace THEN 1
        ELSE 10

\* -1, 0 or 1: the order of two sequences of numbers, a proper prefix first.
LexCompare(a, b) ==
    LET diff == {i \in 1..Len(a) : i <= Len(b) /\ a[i] # b[i]}
    IN  IF diff # {}
        THEN (IF a[Min(diff)] < b[Min(diff)] THEN -1 ELSE 1)
        ELSE IF Len(a) < Len(b) THEN -1 ELSE IF Len(a) > Len(b) THEN 1 ELSE 0

\* String.prototype.localeCompare: by primary weights, then lower case first.
localeCompare(a, b) ==
    LET primary == LexCompare(Map(a, PrimaryWeight), Map(b, PrimaryWeight))
        case(c) == IF c \in DOMAIN LowerMap THEN 1 ELSE 0
    IN  IF primary # 0 THEN primary ELSE LexCompare(Map(a, case), Map(b, case))

Sign(n) == IF n < 0 THEN -1 ELSE IF n > 0 THEN 1 ELSE 0

\* A comparator that puts b first whenever a is not before it, equal keys
\* included, which C22 must tell from the real one.
sortItemsCompareNeverEqual(a, b, state) ==
    LET key == state.key
        dir == IF state.direction = "asc" THEN 1 ELSE -1
    IN  IF Includes(ToLowerCase(key), LSalary)
        THEN (IF ToNumber(a[key].min).v < ToNumber(b[key].min).v THEN -1 * dir ELSE dir)
        ELSE IF Includes(ToLowerCase(key), LDate)
        THEN (IF GetTime(a[key]).v < GetTime(b[key]).v THEN -1 * dir ELSE dir)
        ELSE (IF localeCompare(a[key], b[key]) < 0 THEN -1 * dir ELSE dir)

\* The comparator of sortItems: its sign.
sortItemsCompare(a, b, state) ==
    LET key == state.key
        dir == IF state.direction = "asc" THEN 1 ELSE -1
    IN  IF Includes(ToLowerCase(key), LSalary)
        THEN Sign(ToNumber(a[key].min).v - ToNumber(b[key].min).v) * dir
        ELSE IF Includes(ToLowerCase(key), LDate)
        THEN (IF GetTime(a[key]).t = "nan" \/ GetTime(b[key]).t = "nan" THEN 0
              ELSE Sign(GetTime(a[key]).v - GetTime(b[key]).v) * dir)
        ELSE localeCompare(a[key], b[key]) * dir

\* Array.prototype.sort is stable: the first n items in order, each item put
\* behind the ones that do not come after it.
InsertAt(sorted, item, k) ==
    SubSeq(sorted, 1, k) \o <<item>> \o SubSeq(sorted, k + 1, Len(sorted))

InsertSorted(sorted, item, state) ==
    InsertAt(sorted, item,
             Cardinality({j \in 1..Len(sorted) : sortItemsCompare(sorted[j], item, state) <= 0}))

RECURSIVE SortedPrefix(_, _, _)
SortedPrefix(items, state, n) ==
    IF n = 0 THEN <<>>
    ELSE InsertSorted(SortedPrefix(items, state, n - 1), items[n], state)

\* sortItems: the array after the in-place sort.
sortItems(items, state) ==
    IF state.key = <<>> THEN items ELSE SortedPrefix(items, state, Len(items))

---------------------------------------------------------------------------
(* The sheet the data source publishes *)

HeaderRow ==
    <<<<"D", "a", "t", "e">>,
      <<"E", "m", "p", "l", "o", "y", "e", "r">>,
      <<"J", "o", "b", " ", "T", "i", "t", "l", "e">>,
      <<"P", "a", "t", "h", "w", "a", "y">>,
      <<"L", "a", "n", "g", "u", "a", "g", "e">>,
      <<"S", "a", "l", "a", "r", "y", " ", "R", "a", "n", "g", "e">>,
      <<"C", "o", "n", "t", "a", "c", "t", " ", "P", "e", "r", "s", "o", "n">>,
      <<"L", "o", "c", "a", "t", "i", "o", "n">>,
      <<"D", "e", "a", "c", "t", "i", "v", "a", "t", "e", "?">>,
      <<"A", "p", "p", "l", "y">>>>

RowAcme ==
    <<<<"0", "1", "/", "1", "5", "/", "2", "0", "2", "5">>,
      <<"A", "c", "m", "e">>,
      <<"D", "e", "v">>,
      <<"W", "e", "b">>,
      <<"J", "S", ",", " ", "P", "y", "t", "h", "o", "n">>,
      <<"$", "6", "0", ",", "0", "0", "0", " ", "-", " ", "$", "8", "0", ",", "0", "0", "0">>,
      <<"P", "a", "t">>,
      <<"R", "e", "m", "o", "t", "e">>,
      <<"F", "A", "L", "S", "E">>,
      <<"h", "t", "t", "p", ":", "/", "/", "a">>>>

RowBeta ==
    <<<<"0", "2", "/", "0", "3", "/", "2", "0", "2", "5">>,
      <<"b", "e", "t", "a">>,
      <<"Q", "A", " ", "L", "e", "a", "d">>,
      <<"D", "a", "t", "a">>,
      <<"P", "y", "t", "h", "o", "n">>,
      <<"$", "5", "0", ",", "0", "0", "0">>,
      <<"S", "a", "m">>,
      <<"C", "e", "n", "t", "r", "a", "l", "_", "K", "Y">>,
      <<"f", "a", "l", "s", "e">>,
      <<"h", "t", "t", "p", ":", "/", "/", "b">>>>

RowCorp ==
    <<<<"1", "2", "/", "2", "0", "/", "2", "0", "2", "4">>,
      <<"C", "o", "r", "p">>,
      <<"A", "n", "a", "l", "y", "s", "t">>,
      <<"W", "e", "b">>,
      <<"S", "Q", "L">>,
      <<"$", "9", "0", ",", "0", "0", "0", " ", "-", " ", "$", "1", "1", "0", ",", "0", "0", "0">>,
      <<"L", "e", "e">>,
      <<"R", "e", "m", "o", "t", "e">>,
      <<"F", "A", "L", "S", "E">>,
      <<"m", "a", "i", "l">>>>

RowDeactivated ==
    <<<<"0", "1", "/", "2", "0", "/", "2", "0", "2", "5">>,
      <<"D", "e", "a", "d">>,
      <<"D", "e", "v">>,
      <<"W", "e", "b">>,
      <<"J", "S">>,
      <<"$", "7", "0", ",", "0", "0", "0">>,
      <<"P", "a", "t">>,
      <<"R", "e", "m", "o", "t", "e">>,
      <<"T", "R", "U", "E">>,
      <<"h", "t", "t", "p", ":", "/", "/", "d">>>>

RowBadDate ==
    <<<<"1", "/", "5", "/", "2", "0", "2", "5">>,
      <<"E", "o", "n">>,
      <<"D", "e", "v">>,
      <<"W", "e", "b">>,
      <<"J", "S">>,
      <<"$", "6", "5", ",", "0", "0", "0">>,
      <<"P", "a", "t">>,
      <<"R", "e", "m", "o", "t", "e">>,
      <<"F", "A", "L", "S", "E">>,
      <<"h", "t", "t", "p", ":", "/", "/", "e">>>>

RowNoSalary ==
    <<<<"0", "1", "/", "0", "8", "/", "2", "0", "2", "5">>,
      <<"F", "o", "x">>,
      <<"D", "e", "v">>,
      <<"D", "a", "t", "a">>,
      <<"P", "y", "t", "h", "o", "n">>,
      <<"D", "O", "E">>,
      <<"S", "a", "m">>,
      <<"R", "e", "m", "o", "t", "e">>,
      <<"F", "A", "L", "S", "E">>,
      <<"h", "t", "t", "p", ":", "/", "/", "f">>>>

RowShort ==
    <<<<"0", "1", "/", "0", "9", "/", "2", "0", "2", "5">>,
      <<"G", "a", "p">>,
      <<"D", "e", "v">>,
      <<"W", "e", "b">>,
      <<"J", "S">>,
      <<"$", "5", "5", ",", "0", "0", "0">>,
      <<"P", "a", "t">>,
      <<"R", "e", "m", "o", "t", "e">>,
      <<"F", "A", "L", "S", "E">>>>

RowFeb30 ==
    <<<<"0", "2", "/", "3", "0", "/", "2", "0", "2", "5">>,
      <<"H", "u", "e">>,
      <<"D", "e", "v">>,
      <<"W", "e", "b">>,
      <<"J", "S">>,
      <<"$", "4", "5", ",", "0", "0", "0">>,
      <<"P", "a", "t">>,
      <<"R", "e", "m", "o", "t", "e">>,
      <<"F", "A", "L", "S", "E">>,
      <<"h", "t", "t", "p", ":", "/", "/", "h">>>>

\* The orders in which the sheet's rows repeat.
PatternClean == <<RowAcme, RowBeta, RowDeactivated, RowCorp>>
PatternBadDate == <<RowAcme, RowBadDate, RowBeta>>
PatternNoSalary == <<RowNoSalary, RowAcme, RowCorp>>
PatternShort == <<RowAcme, RowShort, RowBeta>>
PatternFeb30 == <<RowAcme, RowFeb30, RowCorp>>

PatternOf ==
    [clean |-> PatternClean, badDate |-> PatternBadDate, noSalary |-> PatternNoSalary,
     short |-> PatternShort, feb30 |-> PatternFeb30]

\* The largest number of data rows of a sheet.
MaxRows == 15

\* The number of data rows of a short sheet.
FewRows == 3

\* What the data source answers: a sheet of `rows` data rows that repeat a
\* pattern, or a body with nothing in it.
Responses ==
    [body : {"sheet"}, pattern : DOMAIN PatternOf, rows : {FewRows}]
        \cup [body : {"sheet"}, pattern : {"clean"}, rows : {0, MaxRows}]
        \cup {[body |-> "empty", pattern |-> "clean", rows |-> 0]}

\* The values of a response: the header row, then the data rows.
SheetValues(response) ==
    IF response.body = "empty" THEN <<>>
    ELSE <<HeaderRow>> \o
         [i \in 1..response.rows |->
             PatternOf[response.pattern][((i - 1) % Len(PatternOf[response.pattern])) + 1]]

\* Every quote of the cell written twice.
RECURSIVE DoubleQuotes(_)
DoubleQuotes(s) ==
    IF Len(s) = 0 THEN <<>>
    ELSE (IF s[1] = "\"" THEN <<"\"", "\"">> ELSE <<s[1]>>) \o DoubleQuotes(Tail(s))

\* The CSV export of a cell: quoted when it holds a comma or a quote.
CsvCell(cell) ==
    IF \E i \in 1..Len(cell) : cell[i] \in {",", "\""}
    THEN <<"\"">> \o DoubleQuotes(cell) \o <<"\"">>
    ELSE cell

\* The CSV export of a sheet.
CsvText(values) ==
    Join(Map(values, LAMBDA row : Join(Map(row, CsvCell), <<",">>)), <<"\n">>)

---------------------------------------------------------------------------
(* Job list: pagination, table, statistics (jobBoard.js, app.js) *)

\* What the user types and selects.
TermLower == <<"p", "y", "t", "h", "o", "n">>
TermUpper == <<"P", "y", "t", "h", "o", "n">>
PathwayWeb == <<"W", "e", "b">>
LocationRemote == <<"R", "e", "m", "o", "t", "e">>
LocationCentral == <<"C", "e", "n", "t", "r", "a", "l", " ", "K", "Y">>

SearchTerms == {<<>>, TermLower, TermUpper}
Pathways == {<<>>, PathwayWeb}
Locations == {<<>>, LocationRemote, LocationCentral}

\* window.outerWidth
ViewportWidths == {1024}

\* let perPage
perPage == 10

\* The "…" entry of a page range.
Ellipsis == 0

\* Array.prototype.slice(start, end)
Slice(items, start, end) ==
    LET len == Len(items)
        from == IF start < 0 THEN Max({len + start, 0}) ELSE Min({start, len})
        to == IF end < 0 THEN Max({len + end, 0}) ELSE Min({end, len})
    IN  IF from < to THEN SubSeq(items, from + 1, to) ELSE <<>>

\* Math.ceil(n / d) for n >= 0, d > 0
Ceil(n, d) == (n + d - 1) \div d

\* paginate (jobBoard.js): the page's items, and the value it gives totalPages.
paginate(items, current, per) ==
    [totalPages |-> Ceil(Len(items), per),
     items |-> Slice(items, (current - 1) * per, (current - 1) * per + per)]

\* A range that puts an ellipsis in every gap, a gap of one page included,
\* which C16 must tell from the real one.
getPaginationRangeDotsOnly(current, total, viewportWidth) ==
    LET numNeighboringPages == IF viewportWidth <= 550 THEN 0 ELSE 2
        shown == {i \in 1..total :
                    \/ i = 1
                    \/ i = total
                    \/ (i >= current - numNeighboringPages
                        /\ i <= current + numNeighboringPages)}
        range == [k \in 1..Cardinality(shown) |-> Nth(shown, k)]
        withDots == [k \in 1..Len(range) |->
                       IF k = 1 THEN <<range[k]>>
                       ELSE IF range[k] - range[k - 1] >= 2
                       THEN <<Ellipsis, range[k]>>
                       ELSE <<range[k]>>]
    IN  Join(withDots, <<>>)

\* getPaginationRange
getPaginationRange(current, total, viewportWidth) ==
    LET numNeighboringPages == IF viewportWidth <= 550 THEN 0 ELSE 2
        shown == {i \in 1..total :
                    \/ i = 1
                    \/ i = total
                    \/ (i >= current - numNeighboringPages
                        /\ i <= current + numNeighboringPages)}
        range == [k \in 1..Cardinality(shown) |-> Nth(shown, k)]
        withDots == [k \in 1..Len(range) |->
                       IF k = 1 THEN <<range[k]>>
                       ELSE IF range[k] - range[k - 1] = 2
                       THEN <<range[k - 1] + 1, range[k]>>
                       ELSE IF range[k] - range[k - 1] > 2
                       THEN <<Ellipsis, range[k]>>
                       ELSE <<range[k]>>]
    IN  Join(withDots, <<>>)

\* #pagination-controls with no button.
NoControls == [items |-> <<>>, prev |-> FALSE, range |-> <<>>, disabled |-> 0, next |-> FALSE]

\* renderPaginationControls: the buttons, and the items their handlers hold.
renderPaginationControls(tableItems, current, total, viewportWidth) ==
    IF total <= 1 THEN NoControls
    ELSE [items |-> tableItems,
          prev |-> current # 1,
          range |-> getPaginationRange(current, total, viewportWidth),
          disabled |-> current,
          next |-> current # total]

\* The headers that get a column: all but the "deactivate" ones.
ShownHeaders(headers) ==
    Filter(headers, LAMBDA header : ~Includes(ToLowerCase(Trim(header)), LDeactivate))

\* item[header].toLocaleString() of a null date is a TypeError.
RowThrows(item, headers) ==
    \E i \in 1..Len(headers) :
        /\ ~Includes(ToLowerCase(Trim(headers[i])), LDeactivate)
        /\ Includes(ToLowerCase(Trim(headers[i])), LDate)
        /\ item[headers[i]] = NullDate

\* renderTable (jobBoard.js): what it leaves of the table, the status line
\* and totalPages, and whether it threw before the body was appended.
renderTable(tableItems, current, headers, viewportWidth, table, status, total) ==
    IF Len(tableItems) = 0
    THEN [jobTable |-> [table EXCEPT !.wrapperHidden = TRUE],
          statusEl |-> [text |-> "No Jobs Posted in the Last 30 Days", hidden |-> FALSE],
          totalPages |-> total, pageUsed |-> 0, threw |-> FALSE]
    ELSE LET pg == paginate(tableItems, current, perPage)
         IN  IF \E i \in 1..Len(pg.items) : RowThrows(pg.items[i], headers)
             THEN [jobTable |-> [table EXCEPT !.header = TRUE,
                                              !.headerItems = tableItems,
                                              !.rows = <<>>],
                   statusEl |-> status,
                   totalPages |-> pg.totalPages, pageUsed |-> current, threw |-> TRUE]
             ELSE [jobTable |-> [header |-> TRUE,
                                 headerItems |-> tableItems,
                                 rows |-> pg.items,
                                 controls |-> renderPaginationControls(
                                     tableItems, current, pg.totalPages, viewportWidth),
                                 wrapperHidden |-> FALSE],
                   statusEl |-> [status EXCEPT !.hidden = TRUE],
                   totalPages |-> pg.totalPages, pageUsed |-> current, threw |-> FALSE]

\* The salary values updateJobStats folds with Math.min and Math.max: a null
\* min counts as 0, and a record with no max gives its min to the maximum.
MinOperand(job) == ToNumber(job[KSalaryRange].min).v
MaxOperand(job) ==
    IF ~Truthy(job[KSalaryRange].max)
    THEN ToNumber(job[KSalaryRange].min).v
    ELSE job[KSalaryRange].max.v

\* The language tokens of the jobs, in order.
AllLanguages(jobs) == Join(Map(jobs, LAMBDA job : job[KLanguage]), <<>>)

\* Object.entries(skillCounts): each skill where it first appears, with its count.
SkillCounts(jobs) ==
    LET langs == AllLanguages(jobs)
        firsts == {i \in 1..Len(langs) : \A j \in 1..(i - 1) : langs[j] # langs[i]}
    IN  [k \in 1..Cardinality(firsts) |->
            [skill |-> langs[Nth(firsts, k)],
             count |-> Cardinality({j \in 1..Len(langs) : langs[j] = langs[Nth(firsts, k)]})]]

\* #job-count, #pay-range and #skills-list as the markup has them; jobs is
\* the argument of the updateJobStats that wrote them.
MarkupStats ==
    [written |-> FALSE, jobs |-> <<>>, jobCount |-> 0,
     payRange |-> [text |-> "markup", min |-> 0, max |-> 0], skills |-> <<>>]

\* updateJobStats
updateJobStats(jobs) ==
    IF Len(jobs) = 0
    THEN [written |-> TRUE, jobs |-> jobs, jobCount |-> 0,
          payRange |-> [text |-> "No Salary Data", min |-> 0, max |-> 0],
          skills |-> <<>>]
    ELSE LET minSalary == Min({MinOperand(jobs[i]) : i \in 1..Len(jobs)})
             maxSalary == Max({MaxOperand(jobs[i]) : i \in 1..Len(jobs)})
         IN  [written |-> TRUE, jobs |-> jobs, jobCount |-> Len(jobs),
              payRange |-> IF minSalary = 0 /\ maxSalary = 0
                           THEN [text |-> "No Data Available", min |-> 0, max |-> 0]
                           ELSE [text |-> "range", min |-> minSalary, max |-> maxSalary],
              skills |-> SkillCounts(jobs)]

\* refreshView: filter, sort, render, and the statistics when the render
\* returned.  `current` is the page renderTable reads: the global currentPage.
refreshView(items, dom, state, current, headers, viewportWidth, table, status, total, statsEl) ==
    LET filteredItems == sortItems(applyFilters(items, dom), state)
        rendered == renderTable(filteredItems, current, headers, viewportWidth,
                                table, status, total)
    IN  [filteredItems |-> filteredItems,
         jobTable |-> rendered.jobTable,
         statusEl |-> rendered.statusEl,
         totalPages |-> rendered.totalPages,
         pageUsed |-> rendered.pageUsed,
         threw |-> rendered.threw,
         stats |-> IF rendered.threw THEN statsEl ELSE updateJobStats(filteredItems)]

\* A click handler that flips the direction whatever header is clicked, which
\* C5 must tell from the real one.
headerClickFlipping(state, header) ==
    [key |-> header,
     direction |-> IF state.direction = "asc" THEN "desc" ELSE "asc"]

\* The header click handler's sortState for the clicked header.
headerClick(state, header) ==
    [key |-> header,
     direction |-> IF state.key = header /\ state.direction = "asc" THEN "desc" ELSE "asc"]

\* const sortableColumns
sortableColumns == {0, 1, 2, 3, 5, 6, 7}

---------------------------------------------------------------------------
(* Job list: the page's handlers *)

Engines == {"v8", "strict"}

\* sortState as declared.
InitialSortState == [key |-> <<>>, direction |-> "asc"]

\* The table, its wrapper and the pagination controls as the markup has them:
\* an empty table in a wrapper that the first render of rows puts on display.
MarkupTable ==
    [header |-> FALSE, headerItems |-> <<>>, rows |-> <<>>,
     controls |-> NoControls, wrapperHidden |-> TRUE]

\* .job-data-status as the markup has it: on display until rows are rendered.
MarkupStatus == [text |-> "markup", hidden |-> FALSE]

NoProbe == [fn |-> "none"]

\* The try block of the DOMContentLoaded handler up to refreshView:
\* fetchJobData's result parsed, normalised and filtered to the active jobs.
LoadJobs(script, payload, eng) ==
    LET jobData == IF script = "app"
                   THEN (IF Len(payload) = 0 THEN ParseThrows ELSE appParseJobData(payload))
                   ELSE parseJobData(CsvText(payload))
    IN  IF ~jobData.ok THEN [ok |-> FALSE, tableHeaders |-> <<>>, activeJobs |-> <<>>]
        ELSE [ok |-> TRUE,
              tableHeaders |-> jobData.tableHeaders,
              activeJobs |-> getActiveJobs(
                  createJobs(jobData.tableHeaders, jobData.jobs, eng))]

\* The page a refreshView renders: jobBoard.js sets a local currentPage that
\* renderTable does not read, app.js sets nothing; both read the global.
RefreshPage == currentPage

\* The view after refreshView(items) under the inputs dom and the sort state.
Refreshed(items, dom, state, headers, viewportWidth) ==
    refreshView(items, dom, state, RefreshPage, headers, viewportWidth,
                jobTable, statusEl, totalPages, stats)

\* The assignments of a refreshView.
ApplyRefresh(refreshed) == \E r \in {refreshed} :
    /\ jobTable' = r.jobTable
    /\ statusEl' = r.statusEl
    /\ totalPages' = r.totalPages
    /\ stats' = r.stats

\* LoadJobs of every script, response and Date parser.
Loaded ==
    [script \in {"jobBoard", "app"}, response \in Responses, eng \in Engines |->
        LoadJobs(script, SheetValues(response), eng)]

\* fetch resolves: the rest of the DOMContentLoaded handler.
FetchResolve ==
    /\ page \in {"jobBoard", "app"}
    /\ loadState = "pending"
    /\ \E response \in Responses, eng \in Engines, w \in ViewportWidths :
        \E loaded \in {Loaded[page, response, eng]} :
            IF ~loaded.ok
            THEN /\ loadState' = "failed"
                 /\ console' = "Error loading sheet:"
                 /\ UNCHANGED <<activeJobs, tableHeaders, jobTable, statusEl, totalPages, stats>>
            ELSE /\ activeJobs' = loaded.activeJobs
                 /\ tableHeaders' = loaded.tableHeaders
                 /\ \E r \in {Refreshed(loaded.activeJobs, inputs, sortState,
                                          loaded.tableHeaders, w)} :
                      /\ ApplyRefresh(r)
                      /\ loadState' = IF r.threw THEN "failed" ELSE "done"
                      /\ console' = IF r.threw THEN "Error loading sheet:" ELSE console
    /\ UNCHANGED <<page, sortState, currentPage, inputs, dashVars, probe>>

\* fetch rejects, or app.js finds the response not ok: the catch block.
FetchReject ==
    /\ page \in {"jobBoard", "app"}
    /\ loadState = "pending"
    /\ loadState' = "failed"
    /\ console' = "Error loading sheet:"
    /\ UNCHANGED <<page, tableHeaders, activeJobs, sortState, currentPage,
                   totalPages, inputs, jobTable, statusEl, stats, dashVars, probe>>

\* A refreshView whose filter hands on the array it was given when no
\* criterion is set, so that the sort reorders that array, which C23 must
\* tell from the real one.
argumentAfterRefreshInPlace(items, dom, state) ==
    IF getFilterCriteria(dom) = [searchTerm |-> <<>>, pathway |-> <<>>, location |-> <<>>]
    THEN sortItems(items, state)
    ELSE items

\* The array refreshView was called with, once it has returned: filterItems
\* starts from a copy of it ([...items]) and sortItems sorts that copy in
\* place, so the array itself is as it was.
argumentAfterRefresh(items, dom, state) == items

\* A listener of the three inputs: refreshView(activeJobs) under the new value.
FilterEvent(dom) ==
    /\ page \in {"jobBoard", "app"}
    /\ dom # inputs
    /\ inputs' = dom
    /\ \E w \in ViewportWidths :
        ApplyRefresh(Refreshed(activeJobs, dom, sortState, tableHeaders, w))
    /\ activeJobs' = argumentAfterRefresh(activeJobs, dom, sortState)
    /\ UNCHANGED <<page, loadState, tableHeaders, sortState,
                   currentPage, console, dashVars, probe>>

\* "input" on #searchInput
SearchInput == \E term \in SearchTerms : FilterEvent([inputs EXCEPT !.searchInput = term])

\* "change" on #pathwayFilter
PathwayChange == \E v \in Pathways : FilterEvent([inputs EXCEPT !.pathwayFilter = v])

\* "change" on #locationFilter
LocationChange == \E v \in Locations : FilterEvent([inputs EXCEPT !.locationFilter = v])

\* The columns the user clicks.
ClickedColumns == {0, 1, 5}

\* "click" on a sortable header of the table on display.
HeaderClick ==
    /\ page \in {"jobBoard", "app"}
    /\ jobTable.header
    /\ ~jobTable.wrapperHidden
    /\ \E colIndex \in ClickedColumns \cap sortableColumns, w \in ViewportWidths :
        /\ colIndex + 1 <= Len(tableHeaders)
        /\ ~Includes(ToLowerCase(Trim(tableHeaders[colIndex + 1])), LDeactivate)
        /\ sortState' = headerClick(sortState, tableHeaders[colIndex + 1])
        /\ ApplyRefresh(Refreshed(jobTable.headerItems, inputs, sortState', tableHeaders, w))
    /\ UNCHANGED <<page, loadState, tableHeaders, activeJobs, currentPage,
                   inputs, console, dashVars, probe>>

\* A pagination button's handler: currentPage = target; renderTable(tableItems).
PageEvent(target) ==
    /\ page \in {"jobBoard", "app"}
    /\ ~jobTable.wrapperHidden
    /\ currentPage' = target
    /\ \E w \in ViewportWidths :
        \E r \in {renderTable(jobTable.controls.items, target, tableHeaders, w,
                            jobTable, statusEl, totalPages)} :
            /\ jobTable' = r.jobTable
            /\ statusEl' = r.statusEl
            /\ totalPages' = r.totalPages
    /\ UNCHANGED <<page, loadState, tableHeaders, activeJobs, sortState,
                   inputs, stats, console, dashVars, probe>>

PrevClick == jobTable.controls.prev /\ PageEvent(currentPage - 1)

NextClick == jobTable.controls.next /\ PageEvent(currentPage + 1)

PageClick ==
    \E k \in 1..Len(jobTable.controls.range) :
        /\ jobTable.controls.range[k] # Ellipsis
        /\ jobTable.controls.range[k] # jobTable.controls.disabled
        /\ PageEvent(jobTable.controls.range[k])

---------------------------------------------------------------------------
(* Dashboard: filters, charts, table (dashboard.js) *)

\* let dashPerPage
dashPerPage == 10

AllOption == <<"A", "l", "l">>
UnknownLocation == <<"U", "n", "k", "n", "o", "w", "n">>

\* The values of the options populateFilters gives #salarySelect.
salaryOptions == {"All", "<50k", "50-75k", "75-100k", ">100k"}

\* paginate (dashboard.js)
dashPaginate(items, current, per) ==
    [items |-> Slice(items, (current - 1) * per, (current - 1) * per + per),
     totalPages |-> Max({1, Ceil(Len(items), per)})]

\* job['Location'] || 'Unknown'
LocationOrUnknown(job) ==
    IF KLocation \in DOMAIN job /\ job[KLocation] # <<>> THEN job[KLocation]
    ELSE UnknownLocation

\* job['Language'] || []
LanguagesOrNone(job) == IF KLanguage \in DOMAIN job THEN job[KLanguage] ELSE <<>>

\* populateFilters: the options of #languageSelect and #locationSelect.
languageOptions(jobs) ==
    {AllOption} \cup UNION {{LanguagesOrNone(jobs[i])[k] : k \in 1..Len(LanguagesOrNone(jobs[i]))} :
                            i \in 1..Len(jobs)}
locationOptions(jobs) ==
    {AllOption} \cup ({Trim(LocationOrUnknown(jobs[i])) : i \in 1..Len(jobs)} \ {<<>>, <<"-">>})

\* toggleSelectValue: the options selected afterwards.
toggleSelectValue(options, selected, value) ==
    IF selected = {value} THEN {o \in options : o = AllOption}
    ELSE {o \in options : o = value}

\* new Date(input.value) of a date input: Invalid Date when it is empty.
InputDate(value) == IF value = <<>> THEN InvalidDate ELSE value

\* Date checks without the check of the span, which C4 must tell from the
\* real ones.
dateWarningWithoutSpan(startDate, endDate) ==
    IF GetTime(startDate).t = "nan" \/ GetTime(endDate).t = "nan"
    THEN "Please choose both From and To dates."
    ELSE IF GetTime(startDate).v >= GetTime(endDate).v
    THEN "The From date should be before the To date."
    ELSE ""

\* The date checks of updateFromFilters: the warning to show, "" when none.
dateWarning(startDate, endDate) ==
    IF GetTime(startDate).t = "nan" \/ GetTime(endDate).t = "nan"
    THEN "Please choose both From and To dates."
    ELSE IF GetTime(startDate).v >= GetTime(endDate).v
    THEN "The From date should be before the To date."
    ELSE IF GetTime(endDate).v - GetTime(startDate).v < 2
    THEN "Please select a range of at least 2 days."
    ELSE ""

\* jobDate && jobDate >= startDate && jobDate <= endDate
InDateRange(job, startDate, endDate) ==
    /\ KDate \in DOMAIN job
    /\ job[KDate].t = "date"
    /\ GetTime(job[KDate]).v >= GetTime(startDate).v
    /\ GetTime(job[KDate]).v <= GetTime(endDate).v

\* The salary bucket test of updateFromFilters on job['Salary Range']?.avg.
InSalaryBucket(job, selectedSalary) ==
    LET avg == IF KSalaryRange \in DOMAIN job THEN job[KSalaryRange].avg
               ELSE [t |-> "null", v |-> 0, half |-> 0]
        falsy == avg.t # "num" \/ (avg.v = 0 /\ avg.half = 0)
    IN  IF falsy \/ selectedSalary = "All" THEN TRUE
        ELSE IF selectedSalary = "<50k" THEN avg.v < 50000
        ELSE IF selectedSalary = "50-75k" THEN avg.v >= 50000 /\ avg.v < 75000
        ELSE IF selectedSalary = "75-100k" THEN avg.v >= 75000 /\ avg.v < 100000
        ELSE IF selectedSalary = ">100k" THEN avg.v >= 100000
        ELSE TRUE

\* 'All' selected together with other options counts as not selected.
EffectiveSelection(selected) ==
    IF AllOption \in selected /\ Cardinality(selected) > 1
    THEN selected \ {AllOption} ELSE selected

InLanguages(job, selectedLanguages) ==
    \/ AllOption \in selectedLanguages
    \/ selectedLanguages = {}
    \/ \E k \in 1..Len(LanguagesOrNone(job)) : LanguagesOrNone(job)[k] \in selectedLanguages

InLocations(job, selectedLocations) ==
    \/ AllOption \in selectedLocations
    \/ selectedLocations = {}
    \/ LocationOrUnknown(job) \in selectedLocations

\* The four filters of updateFromFilters, each on the jobs it is given.
dateFiltered(jobs, dom) ==
    Filter(jobs, LAMBDA job : InDateRange(job, InputDate(dom.startDate),
                                          InputDate(dom.endDate)))
salaryFiltered(jobs, dom) ==
    Filter(jobs, LAMBDA job : InSalaryBucket(job, dom.salarySelected))
languageFiltered(jobs, dom) ==
    Filter(jobs, LAMBDA job : InLanguages(job, EffectiveSelection(dom.languageSelected)))
locationFiltered(jobs, dom) ==
    Filter(jobs, LAMBDA job : InLocations(job, EffectiveSelection(dom.locationSelected)))

\* Filters of which the last starts again from the jobs of the date range,
\* which C20 must tell from the real ones.
dashFilterJobsFromDateRange(jobs, dom) ==
    locationFiltered(dateFiltered(jobs, dom), dom)

\* The jobs updateFromFilters keeps under a valid date range: each filter
\* works on what the one before it kept.
dashFilterJobs(jobs, dom) ==
    locationFiltered(languageFiltered(salaryFiltered(dateFiltered(jobs, dom), dom), dom), dom)

\* const columns of renderTable (dashboard.js)
dashColumns == <<KJobTitle, KLanguage, KSalaryRange, KLocation>>

\* a[column] != null ? a[column] : ''
ColumnValue(job, column) == IF column \in DOMAIN job THEN job[column] ELSE <<>>

\* job['Salary Range']?.avg || 0, in halves.
AvgHalves(job) ==
    IF KSalaryRange \in DOMAIN job /\ job[KSalaryRange].avg.t = "num"
    THEN 2 * job[KSalaryRange].avg.v + job[KSalaryRange].avg.half
    ELSE 0

\* The time sortJobs compares a Date column by: -1 for what is not a date.
TimeOrMinusOne(job) ==
    IF KDate \in DOMAIN job /\ job[KDate].t = "date" THEN GetTime(job[KDate]).v ELSE -1

\* sortJobs: the sign of what it returns.  The strings of the sheet hold no
\* digit run, where the numeric collation would differ.
sortJobs(a, b, column, direction) ==
    LET dir == IF direction = "asc" THEN 1 ELSE -1
        av == ColumnValue(a, column)
        bv == ColumnValue(b, column)
    IN  IF column = KDate
        THEN (IF TimeOrMinusOne(a) < TimeOrMinusOne(b) THEN -1 * dir ELSE 1 * dir)
        ELSE IF column = KSalaryRange THEN Sign(AvgHalves(a) - AvgHalves(b)) * dir
        ELSE IF column = KLanguage
        THEN localeCompare(Join(av, <<",", " ">>), Join(bv, <<",", " ">>)) * dir
        ELSE localeCompare(av, bv) * dir

\* jobsToRender.sort(sortJobs): the first n jobs in order, as a stable sort
\* leaves them.
DashInsertSorted(sorted, job, sort) ==
    InsertAt(sorted, job,
             Cardinality({j \in 1..Len(sorted) :
                            sortJobs(sorted[j], job, sort.column, sort.direction) <= 0}))

RECURSIVE DashSortedPrefix(_, _, _)
DashSortedPrefix(jobs, sort, n) ==
    IF n = 0 THEN <<>>
    ELSE DashInsertSorted(DashSortedPrefix(jobs, sort, n - 1), jobs[n], sort)

\* #dashboard-pagination with no button.
DashNoControls ==
    [prev |-> FALSE, range |-> <<>>, current |-> 0, total |-> 0, next |-> FALSE]

\* renderPaginationControls (dashboard.js)
dashRenderPaginationControls(total, current, viewportWidth) ==
    IF total <= 1 THEN DashNoControls
    ELSE [prev |-> current # 1,
          range |-> getPaginationRange(current, total, viewportWidth),
          current |-> current, total |-> total,
          next |-> current # total]

\* renderTable (dashboard.js) past the sort: the rows of the page pg and the
\* pagination controls.
DashRendered(jobs, current, viewportWidth, pg) ==
    [table |-> [head |-> TRUE, jobs |-> jobs, rows |-> pg.items,
                status |-> [text |-> "", hidden |-> TRUE],
                controls |-> dashRenderPaginationControls(
                    pg.totalPages, current, viewportWidth)],
     dashTotalPages |-> pg.totalPages]

\* renderTable (dashboard.js): the table and the value of dashTotalPages.
dashRenderTable(jobs, sort, current, viewportWidth, total) ==
    IF Len(jobs) = 0
    THEN [table |-> [head |-> FALSE, jobs |-> <<>>, rows |-> <<>>,
                     status |-> [text |-> "No jobs match the selected filters.",
                                 hidden |-> FALSE],
                     controls |-> DashNoControls],
          dashTotalPages |-> total]
    ELSE DashRendered(jobs, current, viewportWidth,
                      dashPaginate(IF sort.column = <<>> THEN jobs
                                   ELSE DashSortedPrefix(jobs, sort, Len(jobs)),
                                   current, dashPerPage))

\* renderCharts: the jobs the charts are drawn from, and the labels of the
\* slices that can be clicked.
renderCharts(jobs, languageSelected) ==
    LET counted(lang) == \/ AllOption \in languageSelected
                         \/ languageSelected = {}
                         \/ lang \in languageSelected
    IN  [jobs |-> jobs,
         pieLabels |-> {LocationOrUnknown(jobs[i]) :
                           i \in {j \in 1..Len(jobs) : AvgHalves(jobs[j]) > 0}},
         donutLabels |-> {lang \in UNION {{LanguagesOrNone(jobs[i])[k] :
                                              k \in 1..Len(LanguagesOrNone(jobs[i]))} :
                                          i \in 1..Len(jobs)} : counted(lang)}]

\* The dashboard as the markup has it, with the overlay the handler shows
\* before it awaits the load.
MarkupDashboard ==
    [jobCount |-> [text |-> "markup", n |-> 0],
     dateWarning |-> [text |-> "", hidden |-> TRUE],
     charts |-> [jobs |-> <<>>, pieLabels |-> {}, donutLabels |-> {}],
     table |-> [head |-> FALSE, jobs |-> <<>>, rows |-> <<>>,
                status |-> [text |-> "markup", hidden |-> TRUE],
                controls |-> DashNoControls],
     overlay |-> "flex"]

\* updateFromFilters past its checks and its filter: what it shows under the
\* warning its date checks gave, "" for none, and the jobs its filter kept.
Shown(view, dom, filteredJobs, rendered) ==
    [view |-> [view EXCEPT
                 !.dateWarning = [text |-> "", hidden |-> TRUE],
                 !.jobCount = [text |-> "Number of jobs:", n |-> Len(filteredJobs)],
                 !.charts = renderCharts(filteredJobs, dom.languageSelected),
                 !.table = rendered.table],
     dashCurrentPage |-> 1, dashTotalPages |-> rendered.dashTotalPages]

Updated(dom, sort, view, current, total, viewportWidth, warning, filteredJobs) ==
    IF warning # ""
    THEN [view |-> [view EXCEPT !.dateWarning = [text |-> warning, hidden |-> FALSE]],
          dashCurrentPage |-> current, dashTotalPages |-> total]
    ELSE Shown(view, dom, filteredJobs,
               dashRenderTable(filteredJobs, sort, 1, viewportWidth, total))

\* updateFromFilters: the view, dashCurrentPage and dashTotalPages after it.
updateFromFilters(jobs, dom, sort, view, current, total, viewportWidth) ==
    Updated(dom, sort, view, current, total, viewportWidth,
            dateWarning(InputDate(dom.startDate), InputDate(dom.endDate)),
            dashFilterJobs(jobs, dom))

---------------------------------------------------------------------------
(* Dashboard: the page's handlers *)

\* The day the page is opened on, and the day 90 days before it.
Today == DateOf(2025, 2, 10)
Last90 == DateOf(2024, 11, 12)

\* The dates the user picks; nothing when an input is cleared.
FromChoices == {<<>>, DateOf(2025, 1, 1), DateOf(2025, 2, 9)}
ToChoices == {DateOf(2025, 1, 1), Today}

\* The options the user selects in a list: all of them are deselected, or one is.
SelectedByUser(options) == {{}} \cup {{o} : o \in options}

\* The salary buckets the user picks.
SalaryChoices == {"All", "50-75k"}

\* What the data source answers the dashboard.
DashResponses ==
    {r \in Responses : r.body = "empty" \/ r.pattern \in {"clean", "feb30"}}

\* The columns the user clicks.
DashClickedColumns == {KJobTitle, KSalaryRange}

\* The try block of initialLoad up to populateFilters: fetchJobData's result
\* parsed, normalised and filtered to the active jobs.
DashLoadJobs(csvText, eng) ==
    LET jobData == dashParseJobData(csvText)
    IN  IF ~jobData.ok THEN [ok |-> FALSE, tableHeaders |-> <<>>, allActiveJobs |-> <<>>]
        ELSE [ok |-> TRUE,
              tableHeaders |-> jobData.tableHeaders,
              allActiveJobs |-> getActiveJobs(
                  dashCreateJobs(jobData.tableHeaders, jobData.jobs, eng))]

\* The assignments of an updateFromFilters under the inputs dom.
ApplyUpdate(jobs, dom) ==
    \E w \in ViewportWidths :
        \E u \in {updateFromFilters(jobs, dom, dashSort, dashView,
                                    dashCurrentPage, dashTotalPages, w)} :
            /\ dashView' = u.view
            /\ dashCurrentPage' = u.dashCurrentPage
            /\ dashTotalPages' = u.dashTotalPages

\* A finally block that leaves the overlay as it is, which C19 must tell
\* from the real one.
hideOverlayNever(view) == view

\* The finally block of the DOMContentLoaded handler: the overlay is hidden.
hideOverlay(view) == [view EXCEPT !.overlay = "none"]

\* initialLoad resolves, then the finally block of the DOMContentLoaded
\* handler: populateFilters, clearAllFilters, and the overlay is hidden.
DashFetchResolve ==
    /\ page = "dashboard"
    /\ loadState = "pending"
    /\ \E response \in DashResponses, eng \in Engines, w \in ViewportWidths :
        \E loaded \in {DashLoadJobs(CsvText(SheetValues(response)), eng)} :
            IF ~loaded.ok
            THEN /\ loadState' = "failed"
                 /\ console' = "Error loading sheet:"
                 /\ dashView' = hideOverlay([dashView EXCEPT
                                   !.jobCount = [text |-> "Error loading data", n |-> 0]])
                 /\ UNCHANGED <<tableHeaders, allActiveJobs, dashInputs,
                                dashCurrentPage, dashTotalPages>>
            ELSE /\ loadState' = "done"
                 /\ console' = console
                 /\ allActiveJobs' = loaded.allActiveJobs
                 /\ tableHeaders' = loaded.tableHeaders
                 /\ dashInputs' = [dashInputs EXCEPT
                        !.languageOptions = languageOptions(loaded.allActiveJobs),
                        !.languageSelected = {AllOption},
                        !.locationOptions = locationOptions(loaded.allActiveJobs),
                        !.locationSelected = {AllOption},
                        !.salarySelected = "All"]
                 /\ \E u \in {updateFromFilters(loaded.allActiveJobs, dashInputs', dashSort,
                                                dashView, dashCurrentPage, dashTotalPages, w)} :
                      /\ dashView' = hideOverlay(u.view)
                      /\ dashCurrentPage' = u.dashCurrentPage
                      /\ dashTotalPages' = u.dashTotalPages
    /\ UNCHANGED <<page, jobListVars, dashSort, probe>>

\* initialLoad's fetch rejects: its catch block, then the finally block.
DashFetchReject ==
    /\ page = "dashboard"
    /\ loadState = "pending"
    /\ loadState' = "failed"
    /\ console' = "Error loading sheet:"
    /\ dashView' = hideOverlay([dashView EXCEPT
                      !.jobCount = [text |-> "Error loading data", n |-> 0]])
    /\ UNCHANGED <<page, tableHeaders, activeJobs, sortState, currentPage, totalPages,
                   inputs, jobTable, statusEl, stats, allActiveJobs, dashSort,
                   dashCurrentPage, dashTotalPages, dashInputs, probe>>

\* A listener that is updateFromFilters, after the user has set the inputs to dom.
DashFilterEvent(dom) ==
    /\ page = "dashboard"
    /\ dashInputs' = dom
    /\ ApplyUpdate(allActiveJobs, dom)
    /\ UNCHANGED <<page, loadState, tableHeaders, jobListVars, console, allActiveJobs,
                   dashSort, probe>>

\* "change" on #startDate and #endDate, and "click" on #updateBtn: the
\* listeners the handler adds once initialLoad has settled.
StartDateChange ==
    /\ loadState # "pending"
    /\ \E v \in FromChoices \ {dashInputs.startDate} :
        DashFilterEvent([dashInputs EXCEPT !.startDate = v])

EndDateChange ==
    /\ loadState # "pending"
    /\ \E v \in ToChoices \ {dashInputs.endDate} :
        DashFilterEvent([dashInputs EXCEPT !.endDate = v])

UpdateClick ==
    /\ loadState # "pending"
    /\ DashFilterEvent(dashInputs)

\* "change" on the three selects: the listeners initialLoad adds when the
\* load has succeeded.
LanguageSelectChange ==
    /\ loadState = "done"
    /\ \E sel \in SelectedByUser(dashInputs.languageOptions) \ {dashInputs.languageSelected} :
        DashFilterEvent([dashInputs EXCEPT !.languageSelected = sel])

LocationSelectChange ==
    /\ loadState = "done"
    /\ \E sel \in SelectedByUser(dashInputs.locationOptions) \ {dashInputs.locationSelected} :
        DashFilterEvent([dashInputs EXCEPT !.locationSelected = sel])

SalarySelectChange ==
    /\ loadState = "done"
    /\ \E v \in SalaryChoices \ {dashInputs.salarySelected} :
        DashFilterEvent([dashInputs EXCEPT !.salarySelected = v])

\* A clearing that leaves the salary select as it is, which C17 must tell
\* from the real one.
clearAllFiltersKeepingSalary(dom) ==
    [dom EXCEPT !.languageSelected = {o \in dom.languageOptions : o = AllOption},
                !.locationSelected = {o \in dom.locationOptions : o = AllOption}]

\* clearAllFilters before its updateFromFilters: in each select, the options
\* whose value is 'All' are selected and no other.
clearAllFilters(dom) ==
    [dom EXCEPT !.languageSelected = {o \in dom.languageOptions : o = AllOption},
                !.locationSelected = {o \in dom.locationOptions : o = AllOption},
                !.salarySelected = "All"]

\* clearAllFilters, on "click" on #clearFilters
ClearFiltersClick ==
    /\ loadState = "done"
    /\ DashFilterEvent(clearAllFilters(dashInputs))

\* onClick of a pie slice: the location is toggled.
PieClick ==
    \E label \in dashView.charts.pieLabels :
        DashFilterEvent([dashInputs EXCEPT
            !.locationSelected = toggleSelectValue(dashInputs.locationOptions,
                                                   dashInputs.locationSelected, label)])

\* onClick of a donut slice: the language is toggled.
DonutClick ==
    \E label \in dashView.charts.donutLabels :
        DashFilterEvent([dashInputs EXCEPT
            !.languageSelected = toggleSelectValue(dashInputs.languageOptions,
                                                   dashInputs.languageSelected, label)])

\* The header click handler's sort column and direction for the clicked column.
dashHeaderClick(sort, c) ==
    IF sort.column = c
    THEN [column |-> c, direction |-> IF sort.direction = "asc" THEN "desc" ELSE "asc"]
    ELSE [column |-> c, direction |-> "asc"]

\* dashCurrentPage = target; renderTable(jobs) under the sort state.
DashRender(sort, target) ==
    /\ page = "dashboard"
    /\ dashSort' = sort
    /\ dashCurrentPage' = target
    /\ \E w \in ViewportWidths :
        \E r \in {dashRenderTable(dashView.table.jobs, sort, target, w, dashTotalPages)} :
            /\ dashView' = [dashView EXCEPT !.table = r.table]
            /\ dashTotalPages' = r.dashTotalPages
    /\ UNCHANGED <<page, loadState, tableHeaders, jobListVars, console, allActiveJobs,
                   dashInputs, probe>>

\* "click" on a header of the dashboard table.
DashHeaderClick ==
    /\ dashView.table.head
    /\ \E c \in DashClickedColumns : DashRender(dashHeaderClick(dashSort, c), 1)

\* The pagination buttons of the dashboard table.
DashPrevClick ==
    /\ dashView.table.controls.prev
    /\ DashRender(dashSort, dashView.table.controls.current - 1)

DashNextClick ==
    /\ dashView.table.controls.next
    /\ DashRender(dashSort, dashView.table.controls.current + 1)

DashPageClick ==
    \E k \in 1..Len(dashView.table.controls.range) :
        /\ dashView.table.controls.range[k] # Ellipsis
        /\ dashView.table.controls.range[k] # dashView.table.controls.current
        /\ DashRender(dashSort, dashView.table.controls.range[k])

\* The selects and date inputs when the handler awaits the load: the dates
\* default to the last 90 days.
InitialDashInputs ==
    [startDate |-> Last90, endDate |-> Today,
     languageOptions |-> {}, languageSelected |-> {},
     locationOptions |-> {}, locationSelected |-> {},
     salarySelected |-> ""]

\* The job list's variables as declared, and its elements as the markup has them.
JobListIdle ==
    /\ activeJobs = <<>>
    /\ sortState = InitialSortState
    /\ currentPage = 1
    /\ totalPages = 0
    /\ inputs = [searchInput |-> <<>>, pathwayFilter |-> <<>>, locationFilter |-> <<>>]
    /\ jobTable = MarkupTable
    /\ statusEl = MarkupStatus
    /\ stats = MarkupStats

\* The dashboard's variables as declared, and its elements when the handler
\* awaits the load.
DashIdle ==
    /\ allActiveJobs = <<>>
    /\ dashSort = [column |-> <<>>, direction |-> "asc"]
    /\ dashCurrentPage = 1
    /\ dashTotalPages = 0
    /\ dashInputs = InitialDashInputs
    /\ dashView = MarkupDashboard

\* The job-list page when its script has run up to the await.
InitJobList ==
    /\ page \in {"jobBoard", "app"}
    /\ loadState = "pending"
    /\ tableHeaders = <<>>
    /\ console = ""
    /\ JobListIdle
    /\ DashIdle
    /\ probe = NoProbe

NextJobList ==
    \/ FetchResolve
    \/ FetchReject
    \/ SearchInput
    \/ PathwayChange
    \/ LocationChange
    \/ HeaderClick
    \/ PrevClick
    \/ NextClick
    \/ PageClick

SpecJobList == InitJobList /\ [][NextJobList]_vars

\* The dashboard when its handler awaits initialLoad.
InitDashboard ==
    /\ page = "dashboard"
    /\ loadState = "pending"
    /\ tableHeaders = <<>>
    /\ console = ""
    /\ JobListIdle
    /\ DashIdle
    /\ probe = NoProbe

NextDashboard ==
    \/ DashFetchResolve
    \/ DashFetchReject
    \/ StartDateChange
    \/ EndDateChange
    \/ UpdateClick
    \/ LanguageSelectChange
    \/ LocationSelectChange
    \/ SalarySelectChange
    \/ ClearFiltersClick
    \/ PieClick
    \/ DonutClick
    \/ DashHeaderClick
    \/ DashPrevClick
    \/ DashNextClick
    \/ DashPageClick

SpecDashboard == InitDashboard /\ [][NextDashboard]_vars

\* The three pages together.
Init == InitJobList \/ InitDashboard

Next == NextJobList \/ NextDashboard

Spec == Init /\ [][Next]_vars

---------------------------------------------------------------------------
(* parseDate on its own: the date strings a cell can hold *)

ProbeMonths == {1, 2, 4, 12, 13}
ProbeDays == {1, 28, 29, 30, 31, 32}
ProbeYears == {2024, 2025}

DigitChars == <<"0", "1", "2", "3", "4", "5", "6", "7", "8", "9">>

\* The last `width` decimal digits of n, zero-padded.
RECURSIVE PadDigits(_, _)
PadDigits(n, width) ==
    IF width = 0 THEN <<>>
    ELSE PadDigits(n \div 10, width - 1) \o <<DigitChars[(n % 10) + 1]>>

\* The cell MM/DD/YYYY for the numbers m, d and y.
DateString(m, d, y) ==
    PadDigits(m, 2) \o <<"/">> \o PadDigits(d, 2) \o <<"/">> \o PadDigits(y, 4)

\* A page whose script is about to call its parseDate on a cell, under one
\* of the Date parsers.
InitParseDate ==
    /\ page \in {"jobBoard", "app", "dashboard"}
    /\ loadState = "pending"
    /\ tableHeaders = <<>>
    /\ console = ""
    /\ JobListIdle
    /\ DashIdle
    /\ probe \in [fn : {"input"}, m : ProbeMonths, d : ProbeDays, y : ProbeYears,
                  eng : Engines]

\* The call of the page's parseDate.
ParseDateCall ==
    /\ probe.fn = "input"
    /\ \E str \in {DateString(probe.m, probe.d, probe.y)} :
        probe' = [fn |-> "parseDate", m |-> probe.m, d |-> probe.d, y |-> probe.y,
                  eng |-> probe.eng, str |-> str,
                  out |-> IF page = "dashboard" THEN dashParseDate(str, probe.eng)
                          ELSE parseDate(str, probe.eng)]
    /\ UNCHANGED <<page, loadState, tableHeaders, console, jobListVars, dashVars>>

SpecParseDate == InitParseDate /\ [][ParseDateCall]_vars

---------------------------------------------------------------------------
(* Claims *)

JobListPage == page \in {"jobBoard", "app"}

\* No job of the sequence carries a true 'Deactivate?'.
NoneDeactivated(jobs) ==
    \A i \in 1..Len(jobs) :
        KDeactivate \in DOMAIN jobs[i] => jobs[i][KDeactivate] = FALSE

HasEmployer(jobs, employer) ==
    \E i \in 1..Len(jobs) : jobs[i][KEmployer] = employer

\* C1: in the job list and in the dashboard, no deactivated record is in the
\* filtered set, in the rendered page, or in the records given to the
\* statistics and the charts, whatever events came before.
C1_NoDeactivatedShown ==
    /\ NoneDeactivated(activeJobs)
    /\ NoneDeactivated(jobTable.headerItems)
    /\ NoneDeactivated(jobTable.controls.items)
    /\ NoneDeactivated(jobTable.rows)
    /\ NoneDeactivated(stats.jobs)
    /\ NoneDeactivated(allActiveJobs)
    /\ NoneDeactivated(dashView.charts.jobs)
    /\ NoneDeactivated(dashView.table.jobs)
    /\ NoneDeactivated(dashView.table.rows)

\* A sorted page that shows both neighbours of the sheet's deactivated row:
\* only the sheet that has that row between them holds the two.
C1_Witness ==
    /\ loadState = "done"
    /\ \/ JobListPage /\ sortState.key # <<>>
          /\ HasEmployer(jobTable.rows, RowBeta[2]) /\ HasEmployer(jobTable.rows, RowCorp[2])
          /\ HasEmployer(stats.jobs, RowBeta[2])
       \/ page = "dashboard" /\ dashSort.column # <<>>
          /\ HasEmployer(dashView.table.rows, RowBeta[2])
          /\ HasEmployer(dashView.table.rows, RowCorp[2])
          /\ HasEmployer(dashView.charts.jobs, RowBeta[2])

\* C2: a step that changes a filter input or the sort leaves the page number
\* at 1 for the render it makes, in the job list and in the dashboard; a step
\* that changes only the page number leaves the filtered and sorted records,
\* the criteria and the sort as they were.
C2_FilterOrSortResetsPage ==
    [][/\ ((inputs' # inputs \/ sortState' # sortState) => currentPage' = 1)
      /\ (((dashInputs' # dashInputs /\ dashView'.dateWarning.hidden)
              \/ dashSort' # dashSort) => dashCurrentPage' = 1)
      /\ ((currentPage' # currentPage /\ inputs' = inputs /\ sortState' = sortState)
              => jobTable'.headerItems = jobTable.headerItems)
      /\ ((dashCurrentPage' # dashCurrentPage /\ dashInputs' = dashInputs
              /\ dashSort' = dashSort)
              => dashView'.table.jobs = dashView.table.jobs)]_vars

\* C3: when the load has failed, the page shows an error message and no job
\* row, in the job list and in the dashboard.
C3_LoadFailureShown ==
    loadState = "failed" =>
        IF page = "dashboard"
        THEN /\ dashView.jobCount.text = "Error loading data"
             /\ dashView.table.rows = <<>>
        ELSE /\ ~statusEl.hidden
             /\ statusEl.text \notin {MarkupStatus.text, "No Jobs Posted in the Last 30 Days"}
             /\ jobTable.rows = <<>>

\* A date range the dashboard accepts: both dates given, From before To, and
\* at least 2 days between them.
RangeIsValid(dom) ==
    /\ dom.startDate # <<>>
    /\ dom.endDate # <<>>
    /\ DayNumber(dom.endDate.y, dom.endDate.m, dom.endDate.d)
         - DayNumber(dom.startDate.y, dom.startDate.m, dom.startDate.d) >= 2

InRange(job, dom) ==
    /\ job[KDate].t = "date"
    /\ DayNumber(job[KDate].y, job[KDate].m, job[KDate].d)
         >= DayNumber(dom.startDate.y, dom.startDate.m, dom.startDate.d)
    /\ DayNumber(job[KDate].y, job[KDate].m, job[KDate].d)
         <= DayNumber(dom.endDate.y, dom.endDate.m, dom.endDate.d)

AllInRange(jobs, dom) == \A i \in 1..Len(jobs) : InRange(jobs[i], dom)

\* C4: in the dashboard, an updateFromFilters under a date range that is not
\* valid shows a warning and leaves the job count, the charts, the table and
\* the current page as they were; under a valid range it hides the warning
\* and shows only jobs dated inside the range, all of them when no select
\* narrows the jobs.
C4_DateRangeChecked ==
    [][dashInputs' # dashInputs =>
        (IF RangeIsValid(dashInputs')
        THEN /\ dashView'.dateWarning.hidden
             /\ AllInRange(dashView'.charts.jobs, dashInputs')
             /\ AllInRange(dashView'.table.rows, dashInputs')
             /\ dashView'.jobCount.n = Len(dashView'.charts.jobs)
             /\ \/ dashInputs'.languageSelected # {AllOption}
                \/ dashInputs'.locationSelected # {AllOption}
                \/ dashInputs'.salarySelected # "All"
                \/ dashView'.charts.jobs
                     = SelectSeq(allActiveJobs', LAMBDA job : InRange(job, dashInputs'))
        ELSE /\ ~dashView'.dateWarning.hidden
             /\ dashView'.dateWarning.text # ""
             /\ dashView'.jobCount = dashView.jobCount
             /\ dashView'.charts = dashView.charts
             /\ dashView'.table = dashView.table
             /\ dashCurrentPage' = dashCurrentPage)]_vars

\* A warning over a table that still shows the rows of the last valid range.
C4_Witness ==
    /\ page = "dashboard"
    /\ ~dashView.dateWarning.hidden
    /\ ~RangeIsValid(dashInputs)
    /\ Len(dashView.table.rows) > 0
    /\ dashView.jobCount.n = Len(dashView.charts.jobs)

Flipped(direction) == IF direction = "asc" THEN "desc" ELSE "asc"

\* C5: the sort starts with no field and ascending; a click on the sort
\* field flips the direction, a click on another field makes it the sort
\* field, ascending.
C5_SortToggle ==
    /\ sortState = [key |-> <<>>, direction |-> "asc"]
    /\ dashSort = [column |-> <<>>, direction |-> "asc"]
    /\ [][/\ (sortState' # sortState =>
               /\ sortState'.key # <<>>
               /\ sortState'.direction =
                    IF sortState'.key = sortState.key THEN Flipped(sortState.direction)
                    ELSE "asc")
          /\ (dashSort' # dashSort =>
               /\ dashSort'.column # <<>>
               /\ dashSort'.direction =
                    IF dashSort'.column = dashSort.column THEN Flipped(dashSort.direction)
                    ELSE "asc")]_vars

\* A table sorted descending: its sort field was clicked twice in a row.
C5_Witness ==
    \/ JobListPage /\ sortState.key # <<>> /\ sortState.direction = "desc"
         /\ Len(jobTable.rows) > 1
    \/ page = "dashboard" /\ dashSort.column # <<>> /\ dashSort.direction = "desc"
         /\ Len(dashView.table.rows) > 1

\* r matches the term t whatever the case of either.
MatchesIgnoringCase(r, t) ==
    \/ Includes(ToLowerCase(r[KEmployer]), ToLowerCase(t))
    \/ Includes(ToLowerCase(r[KJobTitle]), ToLowerCase(t))
    \/ \E i \in 1..Len(r[KLanguage]) : Includes(ToLowerCase(r[KLanguage][i]), ToLowerCase(t))

\* C6: the search of the job list ignores case: with no other filter set, the
\* records a refresh shows are the active records whose employer, job title
\* or some language contains the term, all lower-cased.
C6_SearchIgnoresCase ==
    (/\ JobListPage
     /\ loadState = "done"
     /\ inputs.pathwayFilter = <<>>
     /\ inputs.locationFilter = <<>>
     /\ \A i \in 1..Len(activeJobs) : activeJobs[i][KDate] # NullDate)
    => {stats.jobs[i] : i \in 1..Len(stats.jobs)}
         = {activeJobs[i] : i \in {j \in 1..Len(activeJobs) :
                MatchesIgnoringCase(activeJobs[j], Trim(inputs.searchInput))}}

\* C7: in the CSV pages and in the JSON page, no record is built from a row
\* that has fewer cells than the header.
C7_ShortRowRejected ==
    JobListPage => ~HasEmployer(activeJobs, RowShort[2])

\* C8: in the job list, a record with a null date does not stop the load, and
\* the render of its page shows every record of the page.
C8_NullDateRowRendered ==
    (/\ JobListPage
     /\ loadState # "pending"
     /\ \E i \in 1..Len(activeJobs) : activeJobs[i][KDate] = NullDate)
    => /\ loadState = "done"
       /\ \/ jobTable.wrapperHidden
          \/ currentPage # 1
          \/ \A i \in 1..Min({perPage, Len(jobTable.headerItems)}) :
                 \E k \in 1..Len(jobTable.rows) : jobTable.rows[k] = jobTable.headerItems[i]

\* The records of jobs that have a salary min.
WithMin(jobs) == {i \in 1..Len(jobs) : jobs[i][KSalaryRange].min.t = "num"}

EffectiveMax(job) ==
    IF job[KSalaryRange].max.t = "num" THEN job[KSalaryRange].max.v
    ELSE job[KSalaryRange].min.v

\* C9: the pay range of the statistics is the least min and the greatest
\* effective max of the records that have a min; a record without a min
\* adds nothing to either.
C9_StatsSkipNullMin ==
    (JobListPage /\ stats.written /\ WithMin(stats.jobs) # {})
    => /\ stats.payRange.text = "range"
       /\ stats.payRange.min
            = Min({stats.jobs[i][KSalaryRange].min.v : i \in WithMin(stats.jobs)})
       /\ stats.payRange.max
            = Max({EffectiveMax(stats.jobs[i]) : i \in WithMin(stats.jobs)})

\* m/d/y is a day of the calendar.
RealDate(m, d, y) == m \in 1..12 /\ d \in 1..DaysInMonth(y, m)

\* C10: parseDate of every page gives the date of the cell when the cell
\* names a day of the calendar, and null when it does not.
C10_ParseDateChecksCalendar ==
    probe.fn = "parseDate" =>
        probe.out = IF RealDate(probe.m, probe.d, probe.y)
                    THEN DateOf(probe.y, probe.m, probe.d)
                    ELSE NullDate

---------------------------------------------------------------------------
(* The salary coercion of createJobs on its own *)

\* The amounts of a salary cell; NoAmount for a cell with one amount only.
NoAmount == 0 - 1
SalaryAmounts == {0, 1, 999, 50000, 60000}
SalaryUpperAmounts == {NoAmount, 0, 1, 1000, 80000, 100000}

\* The decimal digits of n, in groups of three set apart by commas.
RECURSIVE GroupedDigits(_)
GroupedDigits(n) ==
    IF n < 10 THEN <<DigitChars[n + 1]>>
    ELSE IF n < 1000 THEN GroupedDigits(n \div 10) \o <<DigitChars[(n % 10) + 1]>>
    ELSE GroupedDigits(n \div 1000) \o <<",">> \o PadDigits(n % 1000, 3)

\* The cell "$A - $B", or "$A" when b is NoAmount.
SalaryCell(a, b) ==
    <<"$">> \o GroupedDigits(a)
        \o (IF b = NoAmount THEN <<>>
            ELSE <<" ", "-", " ", "$">> \o GroupedDigits(b))

\* A page whose createJobs is about to coerce a salary cell.
InitSalary ==
    /\ page \in {"jobBoard", "app", "dashboard"}
    /\ loadState = "pending"
    /\ tableHeaders = <<>>
    /\ console = ""
    /\ JobListIdle
    /\ DashIdle
    /\ probe \in [fn : {"salaryInput"}, a : SalaryAmounts, b : SalaryUpperAmounts]

\* The salary branch of the page's createJobs, through Coerce.
SalaryCall ==
    /\ probe.fn = "salaryInput"
    /\ \E cell \in {SalaryCell(probe.a, probe.b)} :
        probe' = [fn |-> "salary", a |-> probe.a, b |-> probe.b, cell |-> cell,
                  out |-> Coerce(KSalaryRange, cell, page, "v8")]
    /\ UNCHANGED <<page, loadState, tableHeaders, console, jobListVars, dashVars>>

SpecSalary == InitSalary /\ [][SalaryCall]_vars

\* C11: the salary cell "$A - $B" gives min A, max B and, in the dashboard,
\* avg (A + B) / 2; the cell "$A" gives min A, max null and avg A; 0 included.
C11_SalaryCoercion ==
    probe.fn = "salary" =>
        /\ probe.out.min = JSNum(probe.a)
        /\ probe.out.max = (IF probe.b = NoAmount THEN JSNull ELSE JSNum(probe.b))
        /\ page = "dashboard" =>
             probe.out.avg =
                 (IF probe.b = NoAmount THEN [t |-> "num", v |-> probe.a, half |-> 0]
                  ELSE [t |-> "num", v |-> (probe.a + probe.b) \div 2,
                        half |-> (probe.a + probe.b) % 2])


---------------------------------------------------------------------------
(* The Deactivate? coercion of createJobs on its own *)

\* Cell contents that read "false" whatever the case.
FalseWords ==
    {<<"f", "a", "l", "s", "e">>, <<"F", "A", "L", "S", "E">>,
     <<"F", "a", "l", "s", "e">>, <<"f", "A", "l", "S", "e">>}

\* Cell contents that do not: empty, other words, and "false" with something
\* more that trimming leaves in place.
OtherWords ==
    {<<>>, <<"n", "o">>, <<"0">>, <<"t", "r", "u", "e">>, <<"T", "R", "U", "E">>,
     <<"y", "e", "s">>, <<"F", "A", "L", "S", "E", " ", "x">>,
     <<"f", " ", "a", "l", "s", "e">>, <<"f", "a", "l", "s", "e", ".">>,
     <<"f", "a", "l", "s">>, <<"\"", "f", "a", "l", "s", "e", "\"">>}

LeftPads == {<<>>, <<" ">>, <<"\t", " ">>}
RightPads == {<<>>, <<" ">>, <<" ", "\n">>}

InitDeactivate ==
    /\ page \in {"jobBoard", "app", "dashboard"}
    /\ loadState = "pending"
    /\ tableHeaders = <<>>
    /\ console = ""
    /\ JobListIdle
    /\ DashIdle
    /\ probe \in [fn : {"deactivateInput"}, word : FalseWords \cup OtherWords,
                  left : LeftPads, right : RightPads]

\* createJobs on a sheet of one row whose only column is Deactivate?, then
\* getActiveJobs on the result.
DeactivateCall ==
    /\ probe.fn = "deactivateInput"
    /\ \E cell \in {probe.left \o probe.word \o probe.right} :
        \E jobs \in {JobsFrom(<<KDeactivate>>, <<(<<cell>>)>>, page, "v8")} :
            probe' = [fn |-> "deactivate", word |-> probe.word, cell |-> cell,
                      flag |-> jobs[1][KDeactivate],
                      active |-> getActiveJobs(jobs)]
    /\ UNCHANGED <<page, loadState, tableHeaders, console, jobListVars, dashVars>>

SpecDeactivate == InitDeactivate /\ [][DeactivateCall]_vars

\* C12: the Deactivate? flag of a normalized record is false exactly when the
\* cell, once trimmed, reads "false" in any case; every other cell gives true,
\* and the record is then left out of the active jobs.
C12_DeactivateFlag ==
    probe.fn = "deactivate" =>
        /\ (probe.flag = FALSE) <=> (probe.word \in FalseWords)
        /\ (probe.flag = TRUE) <=> (probe.active = <<>>)

\* A padded upper-case FALSE was read as false and the record stayed active.
C12_Witness ==
    /\ probe.fn = "deactivate"
    /\ probe.cell = <<" ", "F", "A", "L", "S", "E", " ", "\n">>
    /\ probe.flag = FALSE
    /\ Len(probe.active) = 1

---------------------------------------------------------------------------
(* paginate on its own *)

MaxItems == 7
MaxPageNumber == 5
MaxPageSize == 4

InitPaginate ==
    /\ page \in {"jobBoard", "app", "dashboard"}
    /\ loadState = "pending"
    /\ tableHeaders = <<>>
    /\ console = ""
    /\ JobListIdle
    /\ DashIdle
    /\ probe \in [fn : {"paginateInput"}, count : 0..MaxItems,
                  current : 1..MaxPageNumber, per : 1..MaxPageSize]

\* paginate of the script of the page on a collection of count items.
PaginateCall ==
    /\ probe.fn = "paginateInput"
    /\ \E items \in {[i \in 1..probe.count |-> i]} :
        \E out \in {IF page = "dashboard"
                    THEN dashPaginate(items, probe.current, probe.per)
                    ELSE paginate(items, probe.current, probe.per)} :
            probe' = [fn |-> "paginate", count |-> probe.count,
                      current |-> probe.current, per |-> probe.per,
                      items |-> out.items, totalPages |-> out.totalPages]
    /\ UNCHANGED <<page, loadState, tableHeaders, console, jobListVars, dashVars>>

SpecPaginate == InitPaginate /\ [][PaginateCall]_vars

\* C13: in every view, paginate returns at most pageSize items and reports
\* ceil(count / pageSize) pages, and never fewer than 1: an empty collection
\* reports 1 page with no items.
C13_PaginateCount ==
    probe.fn = "paginate" =>
        /\ Len(probe.items) <= probe.per
        /\ probe.totalPages = Max({1, Ceil(probe.count, probe.per)})
        /\ (probe.count = 0) => (probe.totalPages = 1 /\ probe.items = <<>>)

---------------------------------------------------------------------------
(* The salary bucket filter of the dashboard on one record *)

\* Salary cells of a sheet: without a salary, and with amounts in and on the
\* edges of the buckets.
SalaryFilterCells ==
    {<<>>, <<"N", "/", "A">>, <<"D", "O", "E">>,
     SalaryCell(0, NoAmount), SalaryCell(40000, NoAmount),
     SalaryCell(50000, 60000), SalaryCell(60000, 100000),
     SalaryCell(74999, 75000), SalaryCell(120000, NoAmount)}

InitSalaryFilter ==
    /\ page = "dashboard"
    /\ loadState = "pending"
    /\ tableHeaders = <<>>
    /\ console = ""
    /\ JobListIdle
    /\ DashIdle
    /\ probe \in [fn : {"salaryFilterInput"}, cell : SalaryFilterCells,
                  hasColumn : BOOLEAN, bucket : salaryOptions]

\* createJobs on a sheet of one recent row, with or without a Salary Range
\* column, then the filters of updateFromFilters with the bucket selected
\* and 'All' languages and locations.
SalaryFilterCall ==
    /\ probe.fn = "salaryFilterInput"
    /\ \E jobs \in {IF probe.hasColumn
                    THEN dashCreateJobs(<<KDate, KSalaryRange>>,
                                        <<(<<DateString(1, 15, 2025), probe.cell>>)>>, "v8")
                    ELSE dashCreateJobs(<<KDate, KJobTitle>>,
                                        <<(<<DateString(1, 15, 2025), probe.cell>>)>>, "v8")} :
        probe' = [fn |-> "salaryFilter", bucket |-> probe.bucket, job |-> jobs[1],
                  shown |-> dashFilterJobs(jobs,
                      [InitialDashInputs EXCEPT !.languageSelected = {AllOption},
                                                !.locationSelected = {AllOption},
                                                !.salarySelected = probe.bucket])]
    /\ UNCHANGED <<page, loadState, tableHeaders, console, jobListVars, dashVars>>

SpecSalaryFilter == InitSalaryFilter /\ [][SalaryFilterCall]_vars

\* A record without a parseable salary: no salary at all, or a null min with
\* an avg of 0.
NoParseableSalary(job) ==
    \/ KSalaryRange \notin DOMAIN job
    \/ /\ job[KSalaryRange].min = JSNull
       /\ job[KSalaryRange].avg.v = 0
       /\ job[KSalaryRange].avg.half = 0

\* C14: with a salary bucket other than 'All' selected, a record without a
\* parseable salary is left out of the filter's result; it is kept only when
\* 'All' is selected.
C14_NoSalaryExcluded ==
    (probe.fn = "salaryFilter" /\ NoParseableSalary(probe.job)) =>
        ((probe.shown # <<>>) <=> (probe.bucket = "All"))

---------------------------------------------------------------------------
(* The prompt of the ellipsis button *)

\* The onclick of the ellipsis button of renderPaginationControls, from the
\* text the prompt returns (String(null) when it is cancelled) to the page
\* it selects.
ellipsisTargetPage(input, current, total) ==
    LET parsed == ParseNumber(input)
        targetPage == IF parsed.t = "nan" \/ parsed.v < 1 THEN current ELSE parsed.v
    IN  IF targetPage > total THEN total ELSE targetPage

MaxTotal == 9
MaxTyped == 12
MinTyped == 0 - 3

\* String(n) of an integer.
RECURSIVE NumberString(_)
NumberString(n) ==
    IF n < 0 THEN <<"-">> \o NumberString(0 - n)
    ELSE IF n < 10 THEN <<DigitChars[n + 1]>>
    ELSE NumberString(n \div 10) \o <<DigitChars[(n % 10) + 1]>>

\* What the visitor types: page numbers in and out of the range, and texts
\* that are no whole number; a cancelled prompt gives null.
TypedNumbers == MinTyped..MaxTyped
TypedTexts ==
    {<<>>, <<"n", "u", "l", "l">>, <<"a", "b", "c">>, <<"3", ".", "7">>,
     <<" ", "4">>, <<"2", "x">>}

InitPrompt ==
    /\ page \in {"jobBoard", "app", "dashboard"}
    /\ loadState = "pending"
    /\ tableHeaders = <<>>
    /\ console = ""
    /\ JobListIdle
    /\ DashIdle
    /\ probe \in [fn : {"promptInput"}, total : 1..MaxTotal, current : 1..MaxTotal,
                  viewportWidth : {400, 1024},
                  input : {NumberString(n) : n \in TypedNumbers} \cup TypedTexts]
    /\ probe.current <= probe.total

\* A click on an ellipsis button of the controls rendered for the page, and
\* the answer to its prompt.
EllipsisCall ==
    /\ probe.fn = "promptInput"
    /\ \E k \in 1..Len(getPaginationRange(probe.current, probe.total, probe.viewportWidth)) :
        getPaginationRange(probe.current, probe.total, probe.viewportWidth)[k] = Ellipsis
    /\ probe' = [fn |-> "prompt", total |-> probe.total, current |-> probe.current,
                 input |-> probe.input,
                 targetPage |-> ellipsisTargetPage(probe.input, probe.current, probe.total)]
    /\ UNCHANGED <<page, loadState, tableHeaders, console, jobListVars, dashVars>>

SpecPrompt == InitPrompt /\ [][EllipsisCall]_vars

\* C15: the page number typed at the prompt of the ellipsis is clamped into
\* 1..totalPages: above totalPages it selects totalPages, below 1 it selects
\* page 1, inside the range it selects that page; and whatever is typed, a
\* page of the range is selected.
C15_PromptClamped ==
    probe.fn = "prompt" =>
        /\ probe.targetPage \in 1..probe.total
        /\ \A n \in TypedNumbers :
            (probe.input = NumberString(n)) =>
                (probe.targetPage = (IF n > probe.total THEN probe.total
                                     ELSE IF n < 1 THEN 1 ELSE n))

---------------------------------------------------------------------------
(* getPaginationRange on its own *)

MaxRangeTotal == 12

\* window.outerWidth: narrow and wide viewports, and the edge between them.
ProbeWidths == {320, 550, 551, 1024}

InitRange ==
    /\ page \in {"jobBoard", "app", "dashboard"}
    /\ loadState = "pending"
    /\ tableHeaders = <<>>
    /\ console = ""
    /\ JobListIdle
    /\ DashIdle
    /\ probe \in [fn : {"rangeInput"}, total : 1..MaxRangeTotal,
                  current : 1..MaxRangeTotal, viewportWidth : ProbeWidths]
    /\ probe.current <= probe.total

RangeCall ==
    /\ probe.fn = "rangeInput"
    /\ probe' = [fn |-> "range", total |-> probe.total, current |-> probe.current,
                 neighbours |-> IF probe.viewportWidth <= 550 THEN 0 ELSE 2,
                 range |-> getPaginationRange(probe.current, probe.total,
                                              probe.viewportWidth)]
    /\ UNCHANGED <<page, loadState, tableHeaders, console, jobListVars, dashVars>>

SpecRange == InitRange /\ [][RangeCall]_vars

\* The pages getPaginationRange must show: the first, the last and those
\* within the neighbour count of the current one.
RequiredPages(current, total, neighbours) ==
    {i \in 1..total : i = 1 \/ i = total
                      \/ (i >= current - neighbours /\ i <= current + neighbours)}

\* The page numbers of a range.
PagesOf(range) == {range[k] : k \in {j \in 1..Len(range) : range[j] # Ellipsis}}

\* C16: for every total >= 1, every current in 1..total and a neighbour count
\* of 0 or 2, the page numbers of the range are strictly increasing and
\* include 1, total and every page within the neighbour count of current; one
\* omitted page between two shown pages is shown as that page; two or more
\* omitted pages are shown as exactly one ellipsis; no two ellipses are
\* adjacent.
C16_RangeShape ==
    probe.fn = "range" =>
        LET range == probe.range
            required == RequiredPages(probe.current, probe.total, probe.neighbours)
        IN  /\ \A j, k \in 1..Len(range) :
                   (j < k /\ range[j] # Ellipsis /\ range[k] # Ellipsis)
                       => (range[j] < range[k])
            /\ required \subseteq PagesOf(range)
            /\ \A p \in 1..probe.total :
                   (p \in PagesOf(range)) <=>
                       (p \in required \/ (p - 1 \in required /\ p + 1 \in required))
            /\ \A k \in 1..Len(range) :
                   (range[k] = Ellipsis) =>
                       (/\ k > 1
                        /\ k < Len(range)
                        /\ range[k - 1] # Ellipsis
                        /\ range[k + 1] # Ellipsis
                        /\ range[k + 1] - range[k - 1] > 2)
            /\ \A k \in 1..(Len(range) - 1) :
                   (range[k] # Ellipsis /\ range[k + 1] # Ellipsis)
                       => (range[k + 1] = range[k] + 1)

\* Page 5 of 10 on a wide viewport: page 2 fills the gap of one page and one
\* ellipsis stands for pages 8 and 9.
C16_Witness ==
    /\ probe.fn = "range"
    /\ probe.neighbours = 2
    /\ probe.range = <<1, 2, 3, 4, 5, 6, 7, Ellipsis, 10>>

---------------------------------------------------------------------------
(* Dashboard claims: clearing the filters *)

\* The active jobs dated inside the range of the date inputs, in their order:
\* none when an input is empty, as no date compares with an invalid one.
JobsInRange(jobs, dom) ==
    IF dom.startDate = <<>> \/ dom.endDate = <<>> THEN <<>>
    ELSE SelectSeq(jobs, LAMBDA job : InRange(job, dom))

\* The sequences hold the same records, each as many times.
SameRecords(s, t) ==
    /\ Len(s) = Len(t)
    /\ \A x \in {s[i] : i \in 1..Len(s)} :
           Cardinality({i \in 1..Len(s) : s[i] = x})
               = Cardinality({i \in 1..Len(t) : t[i] = x})

---------------------------------------------------------------------------
(* toggleSelectValue under the labels the chart slices emit *)

LPython == <<"P", "y", "t", "h", "o", "n">>
LJS == <<"J", "S">>
LRemote == <<"R", "e", "m", "o", "t", "e">>

\* Location cells of the first row of the sheet.
ToggleLocationCells == {LRemote, <<"L", "o", "u", "i", "s", "v", "i", "l", "l", "e">>, <<>>, <<"-">>}

\* The options the visitor had selected before the click, where the select has them.
TogglePicks ==
    {s \in SUBSET {AllOption, LPython, LJS, LRemote, UnknownLocation} : Cardinality(s) <= 2}

\* The active jobs of a sheet of two recent rows with a salary each.
ToggleJobs(locationCell) ==
    dashCreateJobs(<<KDate, KLanguage, KSalaryRange, KLocation>>,
                   <<(<<DateString(1, 15, 2025), <<"J", "S", ",", " ", "P", "y", "t", "h", "o", "n">>,
                        SalaryCell(60000, 80000), locationCell>>),
                     (<<DateString(1, 20, 2025), LJS, SalaryCell(50000, NoAmount), LRemote>>)>>,
                   "v8")

InitToggle ==
    /\ page = "dashboard"
    /\ loadState = "pending"
    /\ tableHeaders = <<>>
    /\ console = ""
    /\ JobListIdle
    /\ DashIdle
    /\ probe \in [fn : {"toggleInput"}, cell : ToggleLocationCells,
                  selectId : {"languageSelect", "locationSelect"}, picked : TogglePicks]

\* The selects as populateFilters fills them and the visitor left them, the
\* charts updateFromFilters draws from them, and a click on one of the slices.
ToggleFrom(selectId, jobs, dom) ==
    \E charts \in {renderCharts(dashFilterJobs(jobs, dom), dom.languageSelected)} :
        \E label \in (IF selectId = "locationSelect" THEN charts.pieLabels
                      ELSE charts.donutLabels) :
            probe' = [fn |-> "toggle", selectId |-> selectId, label |-> label,
                      before |-> IF selectId = "locationSelect" THEN dom.locationSelected
                                 ELSE dom.languageSelected,
                      after |-> IF selectId = "locationSelect"
                                THEN toggleSelectValue(dom.locationOptions,
                                                       dom.locationSelected, label)
                                ELSE toggleSelectValue(dom.languageOptions,
                                                       dom.languageSelected, label)]

ToggleCall ==
    /\ probe.fn = "toggleInput"
    /\ \E jobs \in {ToggleJobs(probe.cell)} :
        ToggleFrom(probe.selectId, jobs,
            [InitialDashInputs EXCEPT
                !.languageOptions = languageOptions(jobs),
                !.locationOptions = locationOptions(jobs),
                !.languageSelected =
                    IF probe.selectId = "languageSelect"
                    THEN probe.picked \cap languageOptions(jobs) ELSE {AllOption},
                !.locationSelected =
                    IF probe.selectId = "locationSelect"
                    THEN probe.picked \cap locationOptions(jobs) ELSE {AllOption},
                !.salarySelected = "All"])
    /\ UNCHANGED <<page, loadState, tableHeaders, console, jobListVars, dashVars>>

SpecToggle == InitToggle /\ [][ToggleCall]_vars

\* C18: for every label a chart slice emits, toggleSelectValue turns a
\* selection that is exactly that label into exactly 'All', and every other
\* selection into exactly that label.
C18_ToggleSelects ==
    probe.fn = "toggle" =>
        (probe.after = (IF probe.before = {probe.label} THEN {AllOption}
                        ELSE {probe.label}))

---------------------------------------------------------------------------
(* Dashboard claims: the loading overlay *)

\* C19: in the dashboard, the loading overlay is visible from before the
\* fetch is issued until the initial load finishes, it is hidden once the
\* load has finished, whether it succeeded or failed, and no later event
\* makes it visible again.
C19_OverlayWhileLoading ==
    /\ [](page = "dashboard" =>
            ((dashView.overlay = "flex") <=> (loadState = "pending")))
    /\ [](page = "dashboard" => dashView.overlay \in {"flex", "none"})
    /\ [][(dashView.overlay = "none") => (dashView'.overlay = "none")]_vars

\* The load has failed, the overlay is hidden, and the visitor has since
\* emptied the From date, which shows a warning under the hidden overlay.
C19_Witness ==
    /\ page = "dashboard"
    /\ loadState = "failed"
    /\ dashView.overlay = "none"
    /\ dashInputs.startDate = <<>>
    /\ ~dashView.dateWarning.hidden

---------------------------------------------------------------------------
(* The filters of the job list and of the dashboard on their own *)

\* The sheets the filters are tried on.
FilterSheets ==
    {[body |-> "sheet", pattern |-> "clean", rows |-> 4],
     [body |-> "sheet", pattern |-> "noSalary", rows |-> FewRows]}

\* The options selected in a multiple select.
FilterPicks(options) == {s \in SUBSET options : Cardinality(s) <= 2}

InitFilter ==
    /\ loadState = "pending"
    /\ tableHeaders = <<>>
    /\ console = ""
    /\ JobListIdle
    /\ DashIdle
    /\ \/ /\ page \in {"jobBoard", "app"}
          /\ probe \in [fn : {"filterInput"}, sheet : FilterSheets,
                        dom : [searchInput : SearchTerms, pathwayFilter : Pathways,
                               locationFilter : Locations]]
       \/ /\ page = "dashboard"
          /\ probe \in [fn : {"filterInput"}, sheet : FilterSheets,
                        dom : [startDate : FromChoices \ {<<>>}, endDate : ToChoices,
                               languageOptions : {{AllOption, LJS, LPython}},
                               languageSelected : FilterPicks({AllOption, LJS, LPython}),
                               locationOptions : {{AllOption, LRemote, LocationCentral}},
                               locationSelected : FilterPicks({AllOption, LRemote,
                                                               LocationCentral}),
                               salarySelected : {"All", "50-75k", "75-100k"}]]

\* The active jobs of the sheet, then applyFilters of the job list, or the
\* filters of updateFromFilters in the dashboard.
FilterCall ==
    /\ probe.fn = "filterInput"
    /\ \E items \in {getActiveJobs(JobsFrom(HeaderRow, Tail(SheetValues(probe.sheet)),
                                            page, "v8"))} :
        probe' = [fn |-> "filter", items |-> items, dom |-> probe.dom,
                  out |-> IF page = "dashboard" THEN dashFilterJobs(items, probe.dom)
                          ELSE applyFilters(items, probe.dom)]
    /\ UNCHANGED <<page, loadState, tableHeaders, console, jobListVars, dashVars>>

SpecFilter == InitFilter /\ [][FilterCall]_vars

\* The predicates of the job list, each on one record: a criterion that is
\* empty is not active.
PassesSearch(item, criteria) ==
    criteria.searchTerm = <<>> \/ getSearchResults(<<item>>, criteria.searchTerm) # <<>>
PassesPathway(item, criteria) ==
    criteria.pathway = <<>> \/ Trim(item[KPathway]) = criteria.pathway
PassesLocation(item, criteria) ==
    criteria.location = <<>> \/ Trim(item[KLocation]) = criteria.location

\* The predicates of the dashboard, each on one record.
PassesDate(job, dom) == dateFiltered(<<job>>, dom) # <<>>
PassesSalary(job, dom) == salaryFiltered(<<job>>, dom) # <<>>
PassesLanguages(job, dom) == languageFiltered(<<job>>, dom) # <<>>
PassesLocations(job, dom) == locationFiltered(<<job>>, dom) # <<>>

\* C20: the filter result is the records that satisfy every active predicate
\* taken on its own, in the order of the collection: search, pathway and
\* location in the job list; date range, salary bucket, languages and
\* locations in the dashboard. The predicates applied one after the other in
\* another order keep the same records in the same order.
C20_FiltersConjoin ==
    probe.fn = "filter" =>
        IF page = "dashboard"
        THEN /\ probe.out = SelectSeq(probe.items, LAMBDA job :
                                /\ PassesDate(job, probe.dom)
                                /\ PassesSalary(job, probe.dom)
                                /\ PassesLanguages(job, probe.dom)
                                /\ PassesLocations(job, probe.dom))
             /\ probe.out = dateFiltered(salaryFiltered(languageFiltered(
                                locationFiltered(probe.items, probe.dom),
                                probe.dom), probe.dom), probe.dom)
             /\ probe.out = languageFiltered(dateFiltered(locationFiltered(
                                salaryFiltered(probe.items, probe.dom),
                                probe.dom), probe.dom), probe.dom)
        ELSE /\ probe.out = SelectSeq(probe.items, LAMBDA item :
                                /\ PassesSearch(item, getFilterCriteria(probe.dom))
                                /\ PassesPathway(item, getFilterCriteria(probe.dom))
                                /\ PassesLocation(item, getFilterCriteria(probe.dom)))
             /\ probe.out =
                    SelectSeq(SelectSeq(SelectSeq(probe.items,
                        LAMBDA item : PassesLocation(item, getFilterCriteria(probe.dom))),
                        LAMBDA item : PassesPathway(item, getFilterCriteria(probe.dom))),
                        LAMBDA item : PassesSearch(item, getFilterCriteria(probe.dom)))

\* Two filters were active in the dashboard and each of them alone keeps
\* more records than both together.
C20_Witness ==
    /\ probe.fn = "filter"
    /\ page = "dashboard"
    /\ probe.out # <<>>
    /\ Len(probe.out) < Len(salaryFiltered(dateFiltered(probe.items, probe.dom), probe.dom))
    /\ Len(probe.out) < Len(locationFiltered(dateFiltered(probe.items, probe.dom), probe.dom))

---------------------------------------------------------------------------
(* Job list claims: filtering twice *)

\* The criteria the visitor can set.
AllCriteria == [searchTerm : SearchTerms, pathway : Pathways, location : Locations]

\* C21: filterItems on its own result under the same criteria returns that
\* result, whatever the criteria and the loaded records; and a click on a
\* sort header of the job list, which filters the list the header was
\* rendered with, gives the table the records that the filters keep of the
\* whole active collection.
C21_FilterIdempotent ==
    /\ [](JobListPage =>
            \A c \in AllCriteria :
                filterItems(filterItems(activeJobs, c), c) = filterItems(activeJobs, c))
    /\ [][(sortState' # sortState) =>
            SameRecords(jobTable'.headerItems, applyFilters(activeJobs', inputs'))]_vars

\* A table narrowed by a search and sorted by a click on a header.
C21_Witness ==
    /\ JobListPage
    /\ inputs.searchInput # <<>>
    /\ sortState.key # <<>>
    /\ ~jobTable.wrapperHidden
    /\ Len(jobTable.headerItems) > 0
    /\ Len(jobTable.headerItems) < Len(activeJobs)

---------------------------------------------------------------------------
(* The sorts of the two views on their own *)

\* The sheets the sorts are tried on.
SortSheets ==
    {[body |-> "sheet", pattern |-> p, rows |-> 5] : p \in {"clean", "badDate", "noSalary", "feb30"}}

\* The headers a click can sort by: four of the sortable columns of the job
\* list, and the columns of the dashboard table.
SortFields(script) ==
    IF script = "dashboard" THEN {dashColumns[i] : i \in 1..Len(dashColumns)}
    ELSE {KDate, KEmployer, KSalaryRange, KLocation}

InitSort ==
    /\ page \in {"jobBoard", "app", "dashboard"}
    /\ loadState = "pending"
    /\ tableHeaders = <<>>
    /\ console = ""
    /\ JobListIdle
    /\ DashIdle
    /\ probe \in [fn : {"sortInput"}, sheet : SortSheets,
                  field : SortFields("jobBoard") \cup SortFields("dashboard"),
                  direction : {"asc", "desc"}]
    /\ probe.field \in SortFields(page)

\* The sort of the view: sortItems in the job list, the sort of renderTable
\* in the dashboard.
SortOnce(items, field, direction) ==
    IF page = "dashboard"
    THEN DashSortedPrefix(items, [column |-> field, direction |-> direction], Len(items))
    ELSE sortItems(items, [key |-> field, direction |-> direction])

\* The active jobs of the sheet sorted, and the result sorted again.
SortCall ==
    /\ probe.fn = "sortInput"
    /\ \E items \in {getActiveJobs(JobsFrom(HeaderRow, Tail(SheetValues(probe.sheet)),
                                            page, "v8"))} :
        \E once \in {SortOnce(items, probe.field, probe.direction)} :
            probe' = [fn |-> "sort", field |-> probe.field, direction |-> probe.direction,
                      items |-> items, once |-> once,
                      twice |-> SortOnce(once, probe.field, probe.direction)]
    /\ UNCHANGED <<page, loadState, tableHeaders, console, jobListVars, dashVars>>

SpecSort == InitSort /\ [][SortCall]_vars

\* The sort key of a record: in the job list the min of the salary, the time
\* of the date, or the text; in the dashboard the avg of the salary, the
\* languages joined, or the text.
SortKey(record, field) ==
    IF page = "dashboard"
    THEN (IF field = KSalaryRange THEN <<AvgHalves(record)>>
          ELSE IF field = KLanguage THEN Join(ColumnValue(record, field), <<",", " ">>)
          ELSE ColumnValue(record, field))
    ELSE (IF field = KSalaryRange THEN <<ToNumber(record[field].min).v>>
          ELSE IF field = KDate THEN <<GetTime(record[field]).v>>
          ELSE record[field])

\* C22: in both views the sort is stable and idempotent: two records whose
\* sort keys are equal come out in the order they went in, and sorting the
\* sorted sequence again by the same field and direction returns it as it is.
C22_SortStableIdempotent ==
    probe.fn = "sort" =>
        /\ probe.twice = probe.once
        /\ SameRecords(probe.once, probe.items)
        /\ \A i, j \in 1..Len(probe.items) :
               (/\ i < j
                /\ probe.items[i] # probe.items[j]
                /\ SortKey(probe.items[i], probe.field) = SortKey(probe.items[j], probe.field))
               => (SelectSeq(probe.once,
                             LAMBDA r : r \in {probe.items[i], probe.items[j]})
                     = SelectSeq(probe.items,
                                 LAMBDA r : r \in {probe.items[i], probe.items[j]}))

\* A descending sort moved a record, and two different records with the same
\* key were in the collection.
C22_Witness ==
    /\ probe.fn = "sort"
    /\ probe.direction = "desc"
    /\ probe.once # probe.items
    /\ \E i, j \in 1..Len(probe.items) :
           /\ i < j
           /\ probe.items[i] # probe.items[j]
           /\ SortKey(probe.items[i], probe.field) = SortKey(probe.items[j], probe.field)

---------------------------------------------------------------------------
(* Claims on both views: the loaded collection *)

---------------------------------------------------------------------------
(* parseCSVLine on its own *)

\* Cell contents: plain, with a comma, with quotes, with both, and a quoted word.
CsvProbeCells ==
    {<<"A", "c", "m", "e">>,
     <<"D", "e", "v", ",", " ", "O", "p", "s">>,
     <<"s", "a", "y", " ", "\"", "h", "i", "\"">>,
     <<"a", " ", "\"", "b", "\"", ",", " ", "c">>,
     <<"\"", "x", "\"">>}

MaxCells == 3

InitCsvLine ==
    /\ page \in {"jobBoard", "dashboard"}
    /\ loadState = "pending"
    /\ tableHeaders = <<>>
    /\ console = ""
    /\ JobListIdle
    /\ DashIdle
    /\ \E n \in 1..MaxCells :
        probe \in [fn : {"csvLineInput"}, cells : [1..n -> CsvProbeCells]]

\* The line of the CSV export for the cells, then parseCSVLine of the script.
CsvLineCall ==
    /\ probe.fn = "csvLineInput"
    /\ \E line \in {Join(Map(probe.cells, CsvCell), <<",">>)} :
        probe' = [fn |-> "csvLine", cells |-> probe.cells, line |-> line,
                  out |-> IF page = "dashboard" THEN dashParseCSVLine(line)
                          ELSE parseCSVLine(line)]
    /\ UNCHANGED <<page, loadState, tableHeaders, console, jobListVars, dashVars>>

SpecCsvLine == InitCsvLine /\ [][CsvLineCall]_vars

\* C24: parseCSVLine of every script that defines it gives back the cells of
\* the line: a comma inside a quoted span does not split the cell, and a
\* doubled quote inside a quoted field is one quote of the cell.  (The empty
\* matches the pattern of jobBoard.js adds between cells are left aside.)
C24_CsvLineCells ==
    probe.fn = "csvLine" =>
        (SelectSeq(probe.out, LAMBDA cell : cell # <<>>) = probe.cells)

----------------------------------------------------------------------------
(* The server: GET /api/sheet over the Job collection *)

\* A value the stored document does not have (undefined).
Absent == [t |-> "absent"]

\* Stored dates: one with a single-digit month and day, one with two digits
\* in both, one with a single-digit day only.
StoredDates == {Absent, DateOf(2025, 1, 5), DateOf(2025, 10, 15), DateOf(2024, 12, 1)}

\* Stored 'Salary Range' objects {min, max}; 0 stands for a missing bound.
StoredSalaries ==
    {Absent, [t |-> "range", min |-> 60000, max |-> 80000],
     [t |-> "range", min |-> 50000, max |-> 0]}

\* The documents Job.find().lean() can return; the text fields are those of
\* one posting.
StoredJobs ==
    [Date : StoredDates, Salary : StoredSalaries, Deactivate : BOOLEAN]

MaxStored == 2

StoredCollections == UNION {[1..n -> StoredJobs] : n \in 0..MaxStored}

\* Date.prototype.toLocaleDateString('en-US'): M/D/YYYY, no leading zeros.
toLocaleDateString(date) ==
    NumberString(date.m) \o <<"/">> \o NumberString(date.d) \o <<"/">>
        \o NumberString(date.y)

\* The cell for job['Salary Range'].
sheetSalaryCell(salary) ==
    IF salary = Absent THEN <<>>
    ELSE <<"$">> \o NumberString(salary.min) \o <<" ", "-", " ", "$">>
         \o NumberString(IF salary.max # 0 THEN salary.max ELSE salary.min)

\* jobs.map(job => [...]) of the handler: every document becomes a row.
sheetRows(jobs) ==
    [i \in 1..Len(jobs) |->
        << IF jobs[i].Date = Absent THEN <<>> ELSE toLocaleDateString(jobs[i].Date),
           RowAcme[2], RowAcme[3], RowAcme[4], RowAcme[5],
           sheetSalaryCell(jobs[i].Salary),
           RowAcme[7], RowAcme[8],
           IF jobs[i].Deactivate THEN <<"T", "R", "U", "E">>
           ELSE <<"F", "A", "L", "S", "E">>,
           RowAcme[10] >>]

\* The response of GET /api/sheet when Job.find() resolves with jobs, and
\* when it rejects.
getSheet(jobs, findResolves) ==
    IF findResolves
    THEN [status |-> 200, values |-> <<HeaderRow>> \o sheetRows(jobs)]
    ELSE [status |-> 500, values |-> <<>>]

\* A request to GET /api/sheet is about to be served from a collection.
InitSheetEndpoint ==
    /\ page = "app"
    /\ loadState = "pending"
    /\ tableHeaders = <<>>
    /\ console = ""
    /\ JobListIdle
    /\ DashIdle
    /\ probe \in [fn : {"sheetRequest"}, db : StoredCollections]

\* app.get('/api/sheet', ...)
GetSheet ==
    /\ probe.fn = "sheetRequest"
    /\ \E findResolves \in BOOLEAN :
        \E response \in {getSheet(probe.db, findResolves)} :
            probe' = [fn |-> "sheetResponse", db |-> probe.db,
                      status |-> response.status, values |-> response.values]
    /\ UNCHANGED <<page, loadState, tableHeaders, console, jobListVars, dashVars>>

\* createJobs of app.js on the rows of the response: the Date cell of each
\* row goes through parseDate.
ClientParseDates ==
    /\ probe.fn = "sheetResponse"
    /\ probe.status = 200
    /\ \E eng \in Engines :
        probe' = [fn |-> "sheetDates", db |-> probe.db, status |-> probe.status,
                  values |-> probe.values,
                  dates |-> [i \in 1..Len(probe.db) |->
                                parseDate(Trim(probe.values[i + 1][1]), eng)]]
    /\ UNCHANGED <<page, loadState, tableHeaders, console, jobListVars, dashVars>>

SpecSheetEndpoint == InitSheetEndpoint /\ [][GetSheet \/ ClientParseDates]_vars

\* C25: the rows GET /api/sheet returns are those of the stored jobs that are
\* not deactivated; no row belongs to a job whose flag is true.
C25_NoDeactivatedRow ==
    (probe.fn = "sheetResponse" /\ probe.status = 200) =>
        (Tail(probe.values)
            = sheetRows(SelectSeq(probe.db, LAMBDA job : ~job.Deactivate)))

\* C29: for every stored job date, the date text GET /api/sheet puts in the
\* row is parsed by parseDate of app.js to the same calendar month, day and
\* year, never to null.
C29_DateRoundTrip ==
    probe.fn = "sheetDates" =>
        \A i \in 1..Len(probe.db) :
            (probe.db[i].Date # Absent) =>
                /\ probe.dates[i] # NullDate
                /\ probe.dates[i].m = probe.db[i].Date.m
                /\ probe.dates[i].d = probe.db[i].Date.d
                /\ probe.dates[i].y = probe.db[i].Date.y

\* C26: whenever a view shows its table, after any filter, search, sort and
\* pagination events, the current page is between 1 and max(1, total pages)
\* of the records being rendered, in the job list and in the dashboard, and a
\* dashboard table with records to show has rows.
C26_PageInRange ==
    /\ (JobListPage /\ jobTable.header /\ ~jobTable.wrapperHidden) =>
          (1 <= currentPage /\ currentPage <= Max({1, totalPages}))
    /\ (page = "dashboard" /\ dashView.table.head) =>
          /\ 1 <= dashCurrentPage
          /\ dashCurrentPage <= Max({1, dashTotalPages})
          /\ dashView.table.rows # <<>>

\* C27: while the initial fetch is pending no filter, sort, paginate or render
\* pass has run: the table, the status line, the statistics and the charts
\* are as the markup has them, whatever input events arrived.
C27_NoRenderBeforeLoad ==
    (loadState = "pending") =>
        /\ jobTable = MarkupTable
        /\ statusEl = MarkupStatus
        /\ stats = MarkupStats
        /\ dashView.table = MarkupDashboard.table
        /\ dashView.charts = MarkupDashboard.charts

----------------------------------------------------------------------------
(* The server: POST /api/jobs *)

\* A text field of req.body.
Text(s) == [t |-> "str", s |-> s]

\* Fields of req.body: a text, a JSON number, or not sent.
PostBodies ==
    [employer : {Absent, Text(RowAcme[2])},
     language : {Absent, Text(RowAcme[5])},
     salaryRange : {Absent, Text(RowAcme[6]), Text(<<"5", "0", "0", "0", "0">>),
                    JSNum(70000)},
     location : {Absent, Text(RowAcme[8])}]

\* salaryRange.replace(...) on a truthy value that is no string throws.
SalaryParseThrows(salaryRange) == salaryRange.t = "num" /\ salaryRange.v # 0

\* The {min, max, avg} of the handler for the salaryRange of the body.
postSalary(salaryRange) ==
    IF salaryRange.t # "str" \/ salaryRange.s = <<>>
    THEN [min |-> JSNull, max |-> JSNull, avg |-> JSNull]
    ELSE LET parsed == SalaryOf(salaryRange.s)
         IN  [min |-> parsed.min, max |-> parsed.max,
              avg |-> IF parsed.min = JSNull THEN JSNull
                      ELSE JSNum((parsed.min.v
                                  + (IF Truthy(parsed.max) THEN parsed.max.v
                                     ELSE parsed.min.v)) \div 2)]

\* String(language).split(',').map(l => l.trim()).filter(Boolean)
postLanguages(language) ==
    LET text == IF language = Absent
                THEN <<"u", "n", "d", "e", "f", "i", "n", "e", "d">> ELSE language.s
    IN  Filter(Map(Split(text, ","), Trim), LAMBDA l : l # <<>>)

\* new Job({...}) of the handler.
newJob(body) ==
    [t |-> "job",
     Employer |-> body.employer,
     Language |-> postLanguages(body.language),
     Salary |-> postSalary(body.salaryRange),
     Location |-> IF body.location = Absent THEN <<>> ELSE body.location.s,
     Deactivate |-> FALSE]

\* A request whose Sheets failure is thrown on to the outer catch.
sheetsSettledRethrowing(request, sheetOk) ==
    [request EXCEPT !.pc = "done",
                    !.sheets = IF sheetOk THEN "ok" ELSE "failed",
                    !.responses = Append(@, IF sheetOk THEN 201 ELSE 500)]

\* The handler up to `await job.save()`, or to the catch when it threw.
postReceived(body) ==
    IF SalaryParseThrows(body.salaryRange)
    THEN [fn |-> "postJobs", pc |-> "done", body |-> body, job |-> Absent,
          save |-> "none", sheets |-> "none", responses |-> <<500>>]
    ELSE [fn |-> "postJobs", pc |-> "saving", body |-> body, job |-> newJob(body),
          save |-> "pending", sheets |-> "none", responses |-> <<>>]

\* job.save() settles: axios.post is called when it resolved, the catch block
\* answers when it rejected.
saveSettled(request, saveOk) ==
    IF saveOk
    THEN [request EXCEPT !.pc = "posting", !.save = "ok", !.sheets = "pending"]
    ELSE [request EXCEPT !.pc = "done", !.save = "failed",
                         !.responses = Append(@, 500)]

\* axios.post settles: its rejection is caught and logged, and the handler
\* answers 201 either way.
sheetsSettled(request, sheetOk) ==
    [request EXCEPT !.pc = "done",
                    !.sheets = IF sheetOk THEN "ok" ELSE "failed",
                    !.responses = Append(@, 201)]

\* A request to POST /api/jobs has arrived.
InitPostJobs ==
    /\ page = "app"
    /\ loadState = "pending"
    /\ tableHeaders = <<>>
    /\ console = ""
    /\ JobListIdle
    /\ DashIdle
    /\ probe \in [fn : {"postRequest"}, body : PostBodies]

PostJobsReceive ==
    /\ probe.fn = "postRequest"
    /\ probe' = postReceived(probe.body)
    /\ UNCHANGED <<page, loadState, tableHeaders, console, jobListVars, dashVars>>

PostJobsSaveSettles ==
    /\ probe.fn = "postJobs"
    /\ probe.pc = "saving"
    /\ \E saveOk \in BOOLEAN : probe' = saveSettled(probe, saveOk)
    /\ UNCHANGED <<page, loadState, tableHeaders, console, jobListVars, dashVars>>

PostJobsSheetsSettles ==
    /\ probe.fn = "postJobs"
    /\ probe.pc = "posting"
    /\ \E sheetOk \in BOOLEAN : probe' = sheetsSettled(probe, sheetOk)
    /\ UNCHANGED <<page, loadState, tableHeaders, console, jobListVars, dashVars>>

SpecPostJobs ==
    InitPostJobs
        /\ [][PostJobsReceive \/ PostJobsSaveSettles \/ PostJobsSheetsSettles]_vars

\* C28: POST /api/jobs attempts the Sheets submission only after the save
\* succeeded; a failed save is answered 500 with no Sheets submission; a
\* successful save is answered 201 whether the Sheets submission succeeds or
\* fails; a request gets one response, and never more than one.
C28_PostJobsOrder ==
    (probe.fn = "postJobs") =>
        /\ (probe.sheets # "none") => (probe.save = "ok")
        /\ (probe.save = "failed") =>
              (probe.responses = <<500>> /\ probe.sheets = "none")
        /\ (probe.save = "ok" /\ probe.pc = "done") => (probe.responses = <<201>>)
        /\ Len(probe.responses) <= 1
        /\ (probe.pc = "done") <=> (Len(probe.responses) = 1)

\* A saved job of two languages whose Sheets submission failed and was
\* answered.
C28_Witness ==
    /\ probe.fn = "postJobs"
    /\ probe.pc = "done"
    /\ probe.save = "ok"
    /\ probe.sheets = "failed"
    /\ probe.job.Salary.avg = JSNum(70000)
    /\ Len(probe.job.Language) = 2

----------------------------------------------------------------------------
(* The comparator of the dashboard on its own *)

\* The columns sortJobs has a branch for: Date, Salary Range, Language, and
\* the text columns of the table.
ComparedColumns == {KDate, KSalaryRange, KLanguage, KJobTitle, KLocation}

\* The dashboard is about to compare the records at two places of a sheet's
\* active jobs.
InitCompare ==
    /\ page = "dashboard"
    /\ loadState = "pending"
    /\ tableHeaders = <<>>
    /\ console = ""
    /\ JobListIdle
    /\ DashIdle
    /\ probe \in [fn : {"compareInput"}, sheet : SortSheets, i : 1..4, j : 1..4,
                  column : ComparedColumns, direction : {"asc", "desc"}]

\* sortJobs on the two records, on the two swapped, and under the other
\* direction.
CompareCall ==
    /\ probe.fn = "compareInput"
    /\ \E jobs \in {getActiveJobs(JobsFrom(HeaderRow, Tail(SheetValues(probe.sheet)),
                                           "dashboard", "v8"))} :
        /\ probe.i <= Len(jobs)
        /\ probe.j <= Len(jobs)
        /\ probe' = [fn |-> "compare", column |-> probe.column,
                     direction |-> probe.direction,
                     a |-> jobs[probe.i], b |-> jobs[probe.j],
                     ab |-> sortJobs(jobs[probe.i], jobs[probe.j], probe.column,
                                     probe.direction),
                     ba |-> sortJobs(jobs[probe.j], jobs[probe.i], probe.column,
                                     probe.direction),
                     other |-> sortJobs(jobs[probe.i], jobs[probe.j], probe.column,
                                        IF probe.direction = "asc" THEN "desc"
                                        ELSE "asc")]
    /\ UNCHANGED <<page, loadState, tableHeaders, console, jobListVars, dashVars>>

SpecCompare == InitCompare /\ [][CompareCall]_vars

\* The key sortJobs compares a record by under a column.
CompareKey(record, column) ==
    IF column = KDate THEN <<TimeOrMinusOne(record)>> ELSE SortKey(record, column)

\* C30: sortJobs is consistent for every column it handles: it returns 0 for
\* two records whose sort keys are equal, results of opposite signs for a, b
\* and b, a when the keys differ, and the negated result under the other
\* direction.
C30_ComparatorConsistent ==
    probe.fn = "compare" =>
        /\ (CompareKey(probe.a, probe.column) = CompareKey(probe.b, probe.column))
              => (probe.ab = 0)
        /\ (CompareKey(probe.a, probe.column) # CompareKey(probe.b, probe.column))
              => (probe.ab # 0 /\ probe.ba = 0 - probe.ab)
        /\ probe.other = 0 - probe.ab

\* The same for the columns the table sorts by, the Date branch left aside.
C30_OtherColumnsConsistent ==
    (probe.fn = "compare" /\ probe.column # KDate) => C30_ComparatorConsistent

=============================================================================
